---- MODULE Spec2Model ----
(***************************************************************************)
(* Model of the tool-orchestrator crate: ToolOrchestrator::execute         *)
(* (src/src/engine.rs), its per-call accounting (call counter, audit log), *)
(* the limits it hands to the script engine, and the value bridge.         *)
(*                                                                         *)
(* The script engine (rhai) is an external collaborator.  It is modelled   *)
(* by what the orchestrator asks of it: compile, then evaluate, counting   *)
(* operations, polling the on_progress hook after every counted operation, *)
(* and calling the registered closures.  The script itself is arbitrary:   *)
(* every evaluation step is chosen nondeterministically.                   *)
(*                                                                         *)
(* Beside the engine: the two accounting strategies run side by side       *)
(* (SpecAccounting), dynamic_to_json on its own (SpecBridge), the          *)
(* ExecutionLimits builders (SpecBuilder, src/src/sandbox.rs), the         *)
(* registry with a log of registrations (SpecRegistry), the final value of *)
(* a script as text (SpecOutput) and the MCP service                       *)
(* (SpecMcp, src/src/mcp/server.rs).                                       *)
(***************************************************************************)
EXTENDS Integers, Sequences, FiniteSets, TLC

\* ---------------------------------------------------------------- bounds
\* Wall-clock horizon (ms) of the model.
MaxNow == 1
\* Operations the engine counts per call before the model stops the script.
MaxOps == 3
\* Tool invocations a script attempts per call.
MaxInvocations == 3

\* The execute calls made on the orchestrator; they may overlap.
Calls == {1, 2}

\* ---------------------------------------------------------------- inputs
ToolNames == {"greet", "fail_tool"}

\* Host handlers, after the closures of the crate's own tests.
Handlers == {"greet_fn", "fail_fn"}

\* limits.max_operations, limits.max_tool_calls, limits.timeout_ms offered
\* to execute.  0 is a legal value of each (the fields are not validated).
MaxOperationsValues == {0, 2}
MaxToolCallsValues == {0, 1, 2}
TimeoutMsValues == {0, 1}

ValidScript == "greet(\"Claude\")"
InvalidScript == "this is not valid rhai syntax {{{{"
Scripts == {ValidScript, InvalidScript}

\* ------------------------------------------------------- script values
\* rhai::Dynamic as a tagged value.
DynString(s) == [kind |-> "string", val |-> s]
DynInt(n) == [kind |-> "int", val |-> n]
DynFloat(finite, repr) == [kind |-> "float", val |-> [finite |-> finite, repr |-> repr]]
DynBool(b) == [kind |-> "bool", val |-> b]
DynArray(elems) == [kind |-> "array", val |-> elems]
DynMap(m) == [kind |-> "map", val |-> m]
DynUnit == [kind |-> "unit", val |-> "()"]
DynOther(dbg) == [kind |-> "other", val |-> dbg]

\* serde_json::Value as a tagged value.
JsonString(s) == [t |-> "String", v |-> s]
JsonInt(n) == [t |-> "Number", v |-> [float |-> FALSE, n |-> n]]
JsonFloat(repr) == [t |-> "Number", v |-> [float |-> TRUE, n |-> repr]]
JsonBool(b) == [t |-> "Bool", v |-> b]
\* Mutant of JsonArray: the elements collected back to front.
JsonArray_reversed(elems) ==
    [t |-> "Array", v |-> [i \in 1..Len(elems) |-> elems[Len(elems) + 1 - i]]]

JsonArray(elems) == [t |-> "Array", v |-> elems]
JsonObject(m) == [t |-> "Object", v |-> m]
JsonNull == [t |-> "Null", v |-> "null"]

\* The keys the scripts' maps use, in the order a BTreeMap keeps them.
MapKeys == <<"key", "num">>

\* The texts of a sequence joined with ", ".
RECURSIVE Joined(_)
Joined(texts) ==
    IF texts = << >> THEN ""
    ELSE IF Len(texts) = 1 THEN texts[1]
    ELSE texts[1] \o ", " \o Joined(Tail(texts))

\* Mutant of DebugText: nothing is printed.
DebugText_empty(d) == ""

\* format!("{:?}", value) of a Dynamic: an array prints as a Vec, a map as
\* "#" and a BTreeMap, a custom type as what its holder prints.
RECURSIVE DebugText(_)
DebugText(d) ==
    CASE d.kind = "string" -> "\"" \o d.val \o "\""
      [] d.kind = "int" -> ToString(d.val)
      [] d.kind = "float" -> d.val.repr
      [] d.kind = "bool" -> IF d.val THEN "true" ELSE "false"
      [] d.kind = "unit" -> "()"
      [] d.kind = "array" ->
             "[" \o Joined([i \in 1..Len(d.val) |-> DebugText(d.val[i])]) \o "]"
      [] d.kind = "map" ->
             LET keys == SelectSeq(MapKeys, LAMBDA k : k \in DOMAIN d.val) IN
             "#{" \o Joined([i \in 1..Len(keys) |->
                        "\"" \o keys[i] \o "\": " \o DebugText(d.val[keys[i]])]) \o "}"
      [] OTHER -> d.val

\* Mutant of JsonOfFloat: every float written as a number.
JsonOfFloat_always_number(f) == JsonFloat(f.repr)

\* serde_json::json!(f64): a finite float is a number, NaN and the
\* infinities have no JSON number and become null.
JsonOfFloat(f) == IF f.finite THEN JsonFloat(f.repr) ELSE JsonNull

RECURSIVE dynamic_to_json(_)
dynamic_to_json(value) ==
    IF value.kind = "string" THEN JsonString(value.val)
    ELSE IF value.kind = "int" THEN JsonInt(value.val)
    ELSE IF value.kind = "float" THEN JsonOfFloat(value.val)
    ELSE IF value.kind = "bool" THEN JsonBool(value.val)
    ELSE IF value.kind = "array"
        THEN JsonArray([i \in 1..Len(value.val) |-> dynamic_to_json(value.val[i])])
    ELSE IF value.kind = "map"
        THEN JsonObject([k \in DOMAIN value.val |-> dynamic_to_json(value.val[k])])
    ELSE IF value.kind = "unit" THEN JsonNull
    ELSE JsonString(DebugText(value))

\* Arguments the scripts pass to tools.
ToolInputs == {DynString("Claude"), DynInt(1)}

\* ---------------------------------------------------------- handlers
Ok(s) == [ok |-> TRUE, text |-> s]
Err(e) == [ok |-> FALSE, text |-> e]

\* Shell commands registered with the MCP service as tools.
ShellCommands == {"echo hello", "echo bye"}

\* RegisteredShellTool::execute: the trimmed stdout of sh -c when it exits
\* with success, else its trimmed stderr, or the spawn error.
ShellOutcomes(command) ==
    {Ok(IF command = "echo hello" THEN "hello" ELSE "bye"),
     Err("Failed to execute command: No such file or directory")}

\* exec(json_input): what a handler may return.
HandlerOutcomes(h, input) ==
    IF h = "greet_fn"
    THEN {Ok("Hello, " \o (IF input.t = "String" THEN input.v ELSE "stranger") \o "!")}
    ELSE IF h \in ShellCommands THEN ShellOutcomes(h)
    ELSE {Err("Intentional failure")}

\* ------------------------------------------------------------ results
\* Option<String>
None == <<>>
Some(x) == <<x>>

\* Mutant of ToolCall: the input is gone when the record is made.
ToolCall_input_moved(tool_name, input, output, success, duration_ms) ==
    [tool_name |-> tool_name, input |-> JsonNull, output |-> output,
     success |-> success, duration_ms |-> duration_ms]

\* ToolCall::new
ToolCall(tool_name, input, output, success, duration_ms) ==
    [tool_name |-> tool_name, input |-> input, output |-> output,
     success |-> success, duration_ms |-> duration_ms]

\* OrchestratorResult::success
OrchestratorResult_success(output, calls, execution_time_ms) ==
    [success |-> TRUE, output |-> output, tool_calls |-> calls,
     execution_time_ms |-> execution_time_ms, error |-> None]

\* OrchestratorResult::error
OrchestratorResult_error(error, calls, execution_time_ms) ==
    [success |-> FALSE, output |-> "", tool_calls |-> calls,
     execution_time_ms |-> execution_time_ms, error |-> Some(error)]

\* OrchestratorError variants; the payload is kept as the text it prints as.
CompilationError(msg) == [variant |-> "CompilationError", with |-> msg]
ExecutionError(msg) == [variant |-> "ExecutionError", with |-> msg]
MaxOperationsExceeded(n) == [variant |-> "MaxOperationsExceeded", with |-> ToString(n)]
MaxToolCallsExceeded(n) == [variant |-> "MaxToolCallsExceeded", with |-> ToString(n)]
Timeout(ms) == [variant |-> "Timeout", with |-> ToString(ms)]
ToolNotFound(name) == [variant |-> "ToolNotFound", with |-> name]
ToolError(msg) == [variant |-> "ToolError", with |-> msg]

\* What execute has returned so far: nothing, Ok(result) or Err(error).
NoReturn == [kind |-> "none", val |-> "none"]
ReturnOk(r) == [kind |-> "Ok", val |-> r]
ReturnErr(e) == [kind |-> "Err", val |-> e]

\* ------------------------------------------------------------- limits
\* sandbox.rs, "Default Limit Constants"
DEFAULT_MAX_OPERATIONS == 100000
DEFAULT_MAX_TOOL_CALLS == 50
DEFAULT_TIMEOUT_MS == 30000
DEFAULT_MAX_STRING_SIZE == 10000000
DEFAULT_MAX_ARRAY_SIZE == 10000
DEFAULT_MAX_MAP_SIZE == 1000

\* "Quick Profile Constants"
QUICK_MAX_OPERATIONS == 10000
QUICK_MAX_TOOL_CALLS == 10
QUICK_TIMEOUT_MS == 5000

\* "Extended Profile Constants"
EXTENDED_MAX_OPERATIONS == 500000
EXTENDED_MAX_TOOL_CALLS == 100
EXTENDED_TIMEOUT_MS == 120000

\* ExecutionLimits { max_operations, max_tool_calls, timeout_ms,
\* ..Default::default() }: the three collection caps, at their defaults here,
\* go to the engine untouched.
ExecutionLimits(ops, calls, timeout) ==
    [max_operations |-> ops, max_tool_calls |-> calls, timeout_ms |-> timeout,
     max_string_size |-> DEFAULT_MAX_STRING_SIZE,
     max_array_size |-> DEFAULT_MAX_ARRAY_SIZE,
     max_map_size |-> DEFAULT_MAX_MAP_SIZE]

\* ExecutionLimits::default, ::new
ExecutionLimits_default ==
    ExecutionLimits(DEFAULT_MAX_OPERATIONS, DEFAULT_MAX_TOOL_CALLS, DEFAULT_TIMEOUT_MS)

\* ExecutionLimits::quick
ExecutionLimits_quick ==
    ExecutionLimits(QUICK_MAX_OPERATIONS, QUICK_MAX_TOOL_CALLS, QUICK_TIMEOUT_MS)

\* ExecutionLimits::extended
ExecutionLimits_extended ==
    ExecutionLimits(EXTENDED_MAX_OPERATIONS, EXTENDED_MAX_TOOL_CALLS, EXTENDED_TIMEOUT_MS)

\* The builders: self with one field set.
with_max_operations(self, max) == [self EXCEPT !.max_operations = max]

with_max_tool_calls(self, max) == [self EXCEPT !.max_tool_calls = max]

with_timeout_ms(self, timeout_ms) == [self EXCEPT !.timeout_ms = timeout_ms]

with_max_string_size(self, max) == [self EXCEPT !.max_string_size = max]

\* Mutant of with_max_array_size: the neighbouring field is set.
with_max_array_size_sets_map(self, max) == [self EXCEPT !.max_map_size = max]

with_max_array_size(self, max) == [self EXCEPT !.max_array_size = max]

with_max_map_size(self, max) == [self EXCEPT !.max_map_size = max]

LimitsOffered ==
    {ExecutionLimits(o, n, t) :
        o \in MaxOperationsValues, n \in MaxToolCallsValues, t \in TimeoutMsValues}

\* --------------------------------------------------------- accounting
\* new_shared_counter
new_shared_counter == 0

\* new_shared_vec
new_shared_vec == <<>>

\* Mutant of increment_counter: the cap compared with > instead of >=.
increment_counter_off_by_one(c, max) ==
    IF c > max THEN [ok |-> FALSE, count |-> c]
    ELSE [ok |-> TRUE, count |-> c + 1]

\* Mutant of increment_counter: a rejected attempt is counted too.
increment_counter_counts_rejected(c, max) ==
    IF c >= max THEN [ok |-> FALSE, count |-> c + 1]
    ELSE [ok |-> TRUE, count |-> c + 1]

\* increment_counter(shared, max): the new counter, and Ok(()) or Err(()).
increment_counter(c, max) ==
    IF c >= max THEN [ok |-> FALSE, count |-> c]
    ELSE [ok |-> TRUE, count |-> c + 1]

\* Mutant of push_to_vec: the record put at the front of the vector.
push_to_vec_front(vec, item) == <<item>> \o vec

\* push_to_vec
push_to_vec(vec, item) == Append(vec, item)

\* lock_vec: a clone of the vector.
lock_vec(vec) == vec

\* Mutant of increment_counter_wasm: the counter bumped before the cap is looked at.
increment_counter_wasm_counts_first(c, max) ==
    IF c + 1 > max THEN [ok |-> FALSE, count |-> c + 1]
    ELSE [ok |-> TRUE, count |-> c + 1]

\* increment_counter, wasm feature: the same through RefCell::borrow_mut.
increment_counter_wasm(c, max) ==
    IF c >= max THEN [ok |-> FALSE, count |-> c]
    ELSE [ok |-> TRUE, count |-> c + 1]

\* push_to_vec, wasm feature: shared.borrow_mut().push(item).
push_to_vec_wasm(vec, item) == Append(vec, item)

\* WasmOrchestrator::execute, "Check call limit": the counter is checked and
\* bumped inline; the early return of the sentinel is the exceeded result.
WasmOrchestrator_check_call_limit(c, max_calls) ==
    IF c >= max_calls THEN [ok |-> FALSE, count |-> c]
    ELSE [ok |-> TRUE, count |-> c + 1]

\* WasmOrchestrator::execute, "Record the call": calls.borrow_mut().push(call).
WasmOrchestrator_record_call(calls, call) == Append(calls, call)

\* Mutant of SessionOf: one counter and one log kept by the orchestrator.
SessionOf_shared(c) == 1

\* The session (counter and log) the closures of execute call c hold: the
\* pair created at the top of that call.
SessionOf(c) == c

\* Mutant of MaxToolCallsSentinel: the message without the limit.
MaxToolCallsSentinel_no_limit(max_calls) == "ERROR: Maximum tool calls exceeded"

\* format!("ERROR: Maximum tool calls ({}) exceeded", max_calls)
MaxToolCallsSentinel(max_calls) ==
    "ERROR: Maximum tool calls (" \o ToString(max_calls) \o ") exceeded"

\* Mutant of ToolErrorText: the handler's error text handed on as it is.
ToolErrorText_raw(e) == e

\* format!("Tool error: {}", e)
ToolErrorText(e) == "Tool error: " \o e

\* -------------------------------------------------------------- state
VARIABLES
    executors,      \* ToolOrchestrator.executors: name -> handler
    now,            \* the wall clock, in ms
    pc,             \* where each execute call stands
    script,         \* the source each call was given
    limits,         \* the ExecutionLimits each call was given
    start_time,     \* start_time / progress_start of each call
    engine_fns,     \* the closures registered in each call's engine: name -> handler
    call_count,     \* the SharedCounter of each session
    tool_calls,     \* the SharedVec<ToolCall> of each session
    num_operations, \* the operations each call's engine has counted
    pending,        \* the admitted invocation whose handler is running, if any
    invocations,    \* history: every closure invocation of each call, in order
    handler_runs,   \* history: every handler invocation of each call, in order
    handler_results,\* history: what each handler invocation returned, in order
    eval_result,    \* the value the evaluation of each call's script produced, if any
    returned        \* what each execute call has returned

engine_vars == <<executors, now, pc, script, limits, start_time, engine_fns,
                 call_count, tool_calls, num_operations, pending, invocations,
                 handler_runs, handler_results, eval_result, returned>>

\* The accounting strategies side by side: a counter and a log behind
\* Arc<Mutex<..>> (native), behind Rc<RefCell<..>> (wasm feature of engine.rs),
\* and the pair WasmOrchestrator::execute keeps inline.
VARIABLES
    native,         \* [counter, vec] of the lock-guarded strategy
    wasm,           \* [counter, vec] of the single-owner strategy
    inline,         \* [counter, vec] of WasmOrchestrator::execute
    session_max,    \* the cap the three are driven with
    session_last    \* the last operation and what each strategy answered

accounting_vars == <<native, wasm, inline, session_max, session_last>>

\* ToolOrchestratorService (the MCP server).
VARIABLES
    default_limits, \* Arc<Mutex<ExecutionLimits>>
    shell_tools,    \* Arc<Mutex<HashMap<String, RegisteredShellTool>>>
    mcp_reply,      \* the CallToolResult of the last register/unregister/list call
    script_replies  \* the ExecuteScriptResult each execute_script call replied with

mcp_vars == <<default_limits, shell_tools, mcp_reply, script_replies>>

\* dynamic_to_json on its own: the value given and the JSON returned.
VARIABLES
    bridge_in,      \* the rhai::Dynamic passed to dynamic_to_json
    bridge_out      \* the serde_json::Value it returned, if it was called

bridge_vars == <<bridge_in, bridge_out>>

\* An ExecutionLimits value under construction by its host.
VARIABLES
    builder_base,   \* the preset the chain started from
    builder,        \* the value the chain has built so far
    builder_chain   \* history: the overrides applied, in order

builder_vars == <<builder_base, builder, builder_chain>>

\* What the script engine and the WASM binding keep beside a call's frame.
VARIABLES
    unresolved,     \* history: the names each call's engine failed to resolve
    spin,           \* flips with every operation the model no longer counts
    js_executors    \* WasmOrchestrator.js_executors: name -> JavaScript callback

\* The two locks of ToolOrchestratorService and the requests it is serving.
VARIABLES
    default_limits_lock, \* the request that holds the Mutex of default_limits, if any
    shell_tools_lock,    \* the request that holds the Mutex of shell_tools, if any
    requests             \* per connection: the tool called, where its handler stands, its name argument
lock_vars == <<default_limits_lock, shell_tools_lock, requests>>
beside == <<unresolved, spin, js_executors, lock_vars>>

\* The state outside the orchestrator's engine, apart from the registration log.
outside == <<accounting_vars, mcp_vars, bridge_vars, builder_vars, beside>>

\* History: every register_executor call made on the orchestrator, in order.
VARIABLES registrations

\* All the state outside the orchestrator's engine.
aside == <<outside, registrations>>

vars == <<engine_vars, aside>>

\* The variables of call c that live in its own frame.
frame == <<pc, script, limits, start_time, engine_fns, num_operations, pending,
           invocations, handler_runs, handler_results, eval_result, returned>>

InFlight(c) == pc[c] \in {"Compiling", "Evaluating", "InTool"}

EngineInit ==
    /\ executors = << >>
    /\ now = 0
    /\ pc = [c \in Calls |-> "Idle"]
    /\ script = [c \in Calls |-> ""]
    /\ limits = [c \in Calls |-> ExecutionLimits(0, 0, 0)]
    /\ start_time = [c \in Calls |-> 0]
    /\ engine_fns = [c \in Calls |-> << >>]
    /\ call_count = [c \in Calls |-> new_shared_counter]
    /\ tool_calls = [c \in Calls |-> new_shared_vec]
    /\ num_operations = [c \in Calls |-> 0]
    /\ pending = [c \in Calls |-> None]
    /\ invocations = [c \in Calls |-> << >>]
    /\ handler_runs = [c \in Calls |-> << >>]
    /\ handler_results = [c \in Calls |-> << >>]
    /\ eval_result = [c \in Calls |-> None]
    /\ returned = [c \in Calls |-> NoReturn]

\* Before any accounting operation: both fresh, as new_shared_counter and
\* new_shared_vec make them.
AccountingInit ==
    /\ native = [counter |-> new_shared_counter, vec |-> new_shared_vec]
    /\ wasm = [counter |-> 0, vec |-> << >>]
    /\ inline = [counter |-> 0, vec |-> << >>]
    /\ session_last = [op |-> "none", native |-> "none", wasm |-> "none", inline |-> "none"]

\* ToolOrchestratorService::new
ServiceInit ==
    /\ default_limits = ExecutionLimits_default
    /\ shell_tools = << >>
    /\ mcp_reply = [op |-> "none", name |-> "", is_error |-> FALSE, text |-> ""]
    /\ script_replies = [c \in Calls |-> None]

\* No ExecutionLimits chain in progress.
BuilderInit ==
    /\ builder_base = ExecutionLimits_default
    /\ builder = ExecutionLimits_default
    /\ builder_chain = << >>

\* Nothing unresolved, no uncounted operation, WasmOrchestrator::new.
\* A connection with no request being served.
NoRequest == [tool |-> "none", at |-> "done", name |-> ""]

RestInit ==
    /\ unresolved = [c \in Calls |-> << >>]
    /\ spin = [c \in Calls |-> FALSE]
    /\ js_executors = << >>
    /\ default_limits_lock = None
    /\ shell_tools_lock = None
    /\ requests = [r \in Calls |-> NoRequest]

Init ==
    /\ RestInit
    /\ EngineInit
    /\ AccountingInit
    /\ session_max = 0
    /\ registrations = << >>
    /\ ServiceInit
    /\ bridge_in = DynUnit
    /\ bridge_out = None
    /\ BuilderInit

\* ------------------------------------------------------------ actions
\* Time passes, whatever the calls are doing (also inside a handler).
Tick ==
    /\ UNCHANGED aside
    /\ now < MaxNow
    /\ now' = now + 1
    /\ UNCHANGED <<executors, frame, call_count, tool_calls>>

\* Mutant of register_executor: a name already present keeps its handler.
register_executor_keeps_first(name, h) ==
    /\ UNCHANGED outside
    /\ \A c \in Calls : ~InFlight(c)
    /\ executors' = [n \in DOMAIN executors \cup {name} |->
                        IF n \in DOMAIN executors THEN executors[n] ELSE h]
    /\ UNCHANGED <<now, frame, call_count, tool_calls>>

\* register_executor(name, executor): &mut self, so no execute(&self) is running.
register_executor(name, h) ==
    /\ UNCHANGED outside
    /\ \A c \in Calls : ~InFlight(c)
    /\ executors' = [n \in DOMAIN executors \cup {name} |->
                        IF n = name THEN h ELSE executors[n]]
    /\ UNCHANGED <<now, frame, call_count, tool_calls>>

\* execute(script, limits), up to the compile: the timers, the session, the
\* engine with its limits and on_progress hook, one closure per executor.
execute(c, src, lim) ==
    /\ UNCHANGED aside
    /\ pc[c] = "Idle"
    /\ pc' = [pc EXCEPT ![c] = "Compiling"]
    /\ script' = [script EXCEPT ![c] = src]
    /\ limits' = [limits EXCEPT ![c] = lim]
    /\ start_time' = [start_time EXCEPT ![c] = now]
    /\ call_count' = [call_count EXCEPT ![SessionOf(c)] = new_shared_counter]
    /\ tool_calls' = [tool_calls EXCEPT ![SessionOf(c)] = new_shared_vec]
    /\ engine_fns' = [engine_fns EXCEPT ![c] = executors]
    /\ UNCHANGED <<executors, eval_result, now, num_operations, pending,
                   invocations, handler_runs, handler_results, returned>>

\* Mutant of compile: a parse error is not returned and evaluation starts.
compile_unchecked(c) ==
    /\ UNCHANGED aside
    /\ pc[c] = "Compiling"
    /\ pc' = [pc EXCEPT ![c] = "Evaluating"]
    /\ UNCHANGED <<executors, eval_result, now, script, limits, start_time, engine_fns,
                   call_count, tool_calls, num_operations, pending, invocations,
                   handler_runs, handler_results, returned>>

\* engine.compile(script)
Compiles(src) == src # InvalidScript

compile(c) ==
    /\ UNCHANGED aside
    /\ pc[c] = "Compiling"
    /\ IF Compiles(script[c])
       THEN /\ pc' = [pc EXCEPT ![c] = "Evaluating"]
            /\ UNCHANGED returned
       ELSE /\ pc' = [pc EXCEPT ![c] = "Failed"]
            /\ returned' = [returned EXCEPT ![c] =
                               ReturnErr(CompilationError("syntax error"))]
    /\ UNCHANGED <<executors, eval_result, now, script, limits, start_time,
                   engine_fns, call_count, tool_calls, num_operations, pending,
                   invocations, handler_runs, handler_results>>

\* Mutant of on_progress: the hook never asks for termination.
on_progress_never(c) == FALSE

\* Mutant of on_progress: the hook's operation count compared with timeout_ms.
on_progress_by_ops(c) == num_operations[c] > limits[c].timeout_ms

\* The on_progress hook: Some("timeout") once the elapsed time is over timeout_ms.
on_progress(c) == now - start_time[c] > limits[c].timeout_ms

\* The engine counts one operation, checks the cap it was given by
\* engine.set_max_operations (rhai: "0 for unlimited", the cap is held as an
\* Option<NonZeroU64>), then polls the on_progress hook with the new count.
track_operation(c) ==
    LET n == num_operations[c] + 1 IN
    IF limits[c].max_operations > 0 /\ n > limits[c].max_operations
    THEN "ErrorTooManyOperations"
    ELSE IF on_progress(c) THEN "ErrorTerminated"
    ELSE "ok"

\* Mutant of MapEvalError: the operation error carries the other limit.
MapEvalError_wrong_limit(e, lim) ==
    IF e = "ErrorTooManyOperations" THEN MaxOperationsExceeded(lim.timeout_ms)
    ELSE IF e = "ErrorTerminated" THEN Timeout(lim.timeout_ms)
    ELSE ExecutionError(e)

\* Mutant of MapEvalError: an engine error of another kind is reported as a
\* missing tool.
MapEvalError_tool_not_found(e, lim) ==
    IF e = "ErrorTooManyOperations" THEN MaxOperationsExceeded(lim.max_operations)
    ELSE IF e = "ErrorTerminated" THEN Timeout(lim.timeout_ms)
    ELSE ToolNotFound(e)

\* The map_err of eval_ast_with_scope.
MapEvalError(e, lim) ==
    IF e = "ErrorTooManyOperations" THEN MaxOperationsExceeded(lim.max_operations)
    ELSE IF e = "ErrorTerminated" THEN Timeout(lim.timeout_ms)
    ELSE ExecutionError(e)

\* Mutant of EvalFails: the failure reported in-band, as a result that
\* carries the log.
EvalFails_in_band(c, e) ==
    /\ pc' = [pc EXCEPT ![c] = "Failed"]
    /\ returned' = [returned EXCEPT ![c] = ReturnOk(OrchestratorResult_error(
                        MapEvalError(e, limits[c]).with, tool_calls[c],
                        now - start_time[c]))]

\* Mutant of EvalFails: the error is kept but the call is not ended.
EvalFails_keeps_running(c, e) ==
    /\ pc' = pc
    /\ returned' = [returned EXCEPT ![c] = ReturnErr(MapEvalError(e, limits[c]))]

\* Evaluation ends with the engine error e: execute returns the mapped error.
EvalFails(c, e) ==
    /\ pc' = [pc EXCEPT ![c] = "Failed"]
    /\ returned' = [returned EXCEPT ![c] = ReturnErr(MapEvalError(e, limits[c]))]

\* One operation of the script that calls no tool.
eval_op(c) ==
    /\ UNCHANGED aside
    /\ pc[c] = "Evaluating"
    /\ num_operations[c] < MaxOps
    /\ num_operations' = [num_operations EXCEPT ![c] = @ + 1]
    /\ IF track_operation(c) = "ok"
       THEN UNCHANGED <<pc, returned>>
       ELSE EvalFails(c, track_operation(c))
    /\ UNCHANGED <<executors, eval_result, now, script, limits, start_time,
                   engine_fns, call_count, tool_calls, pending, invocations,
                   handler_runs, handler_results>>

\* Mutant of reject_call: the breach of the cap ends the call with
\* MaxToolCallsExceeded.
reject_call_aborts(c, name, max_calls) ==
    /\ invocations' = [invocations EXCEPT ![c] = Append(@,
           [tool_name |-> name, admitted |-> FALSE,
            output |-> MaxToolCallsSentinel(max_calls)])]
    /\ pc' = [pc EXCEPT ![c] = "Failed"]
    /\ returned' = [returned EXCEPT ![c] = ReturnErr(MaxToolCallsExceeded(max_calls))]
    /\ UNCHANGED <<pending, handler_runs>>

\* The closure's early return when the counter is at its cap: the sentinel goes
\* to the script, which runs on.
reject_call(c, name, max_calls) ==
    /\ invocations' = [invocations EXCEPT ![c] = Append(@,
           [tool_name |-> name, admitted |-> FALSE,
            output |-> MaxToolCallsSentinel(max_calls)])]
    /\ UNCHANGED <<pc, pending, handler_runs, returned>>

\* The handlers of tool name that call c has started.
RunsOf(c, name) ==
    Cardinality({i \in 1..Len(handler_runs[c]) : handler_runs[c][i].tool_name = name})

\* Mutant of invoke_tool: each tool's closure counts its own calls against
\* the cap.
invoke_tool_cap_per_tool(c, name, input) ==
    /\ UNCHANGED aside
    /\ pc[c] = "Evaluating"
    /\ name \in DOMAIN engine_fns[c]
    /\ num_operations[c] < MaxOps
    /\ Len(invocations[c]) < MaxInvocations
    /\ num_operations' = [num_operations EXCEPT ![c] = @ + 1]
    /\ IF track_operation(c) # "ok"
       THEN /\ EvalFails(c, track_operation(c))
            /\ UNCHANGED <<call_count, pending, invocations, handler_runs>>
       ELSE LET max_calls == limits[c].max_tool_calls
                r == increment_counter(RunsOf(c, name), max_calls)
                json_input == dynamic_to_json(input)
            IN  /\ call_count' = [call_count EXCEPT ![SessionOf(c)] = IF r.ok THEN @ + 1 ELSE @]
                /\ IF ~r.ok
                   THEN reject_call(c, name, max_calls)
                   ELSE /\ pending' = [pending EXCEPT ![c] = Some(
                               [tool_name |-> name, exec |-> engine_fns[c][name],
                                json_input |-> json_input, call_start |-> now])]
                        /\ handler_runs' = [handler_runs EXCEPT ![c] = Append(@,
                               [tool_name |-> name, exec |-> engine_fns[c][name],
                                arg |-> input, input |-> json_input])]
                        /\ pc' = [pc EXCEPT ![c] = "InTool"]
                        /\ UNCHANGED <<invocations, returned>>
    /\ UNCHANGED <<executors, eval_result, now, script, limits, start_time,
                   engine_fns, tool_calls, handler_results>>

\* The script calls the registered function name(input): the engine counts the
\* call as an operation, then runs the closure up to the handler call.
invoke_tool(c, name, input) ==
    /\ UNCHANGED aside
    /\ pc[c] = "Evaluating"
    /\ name \in DOMAIN engine_fns[c]
    /\ num_operations[c] < MaxOps
    /\ Len(invocations[c]) < MaxInvocations
    /\ num_operations' = [num_operations EXCEPT ![c] = @ + 1]
    /\ IF track_operation(c) # "ok"
       THEN /\ EvalFails(c, track_operation(c))
            /\ UNCHANGED <<call_count, pending, invocations, handler_runs>>
       ELSE LET max_calls == limits[c].max_tool_calls
                r == increment_counter(call_count[SessionOf(c)], max_calls)
                json_input == dynamic_to_json(input)
            IN  /\ call_count' = [call_count EXCEPT ![SessionOf(c)] = r.count]
                /\ IF ~r.ok
                   THEN reject_call(c, name, max_calls)
                   ELSE /\ pending' = [pending EXCEPT ![c] = Some(
                               [tool_name |-> name, exec |-> engine_fns[c][name],
                                json_input |-> json_input, call_start |-> now])]
                        /\ handler_runs' = [handler_runs EXCEPT ![c] = Append(@,
                               [tool_name |-> name, exec |-> engine_fns[c][name],
                                arg |-> input, input |-> json_input])]
                        /\ pc' = [pc EXCEPT ![c] = "InTool"]
                        /\ UNCHANGED <<invocations, returned>>
    /\ UNCHANGED <<executors, eval_result, now, script, limits, start_time,
                   engine_fns, tool_calls, handler_results>>

\* Mutant of handler_return: a handler that comes back after the timeout is
\* treated as timed out, its call unrecorded.
handler_return_times_out(c, r) ==
    /\ UNCHANGED aside
    /\ pc[c] = "InTool"
    /\ LET p == pending[c][1]
           output == IF r.ok THEN r.text ELSE ToolErrorText(r.text)
           duration_ms == now - p.call_start
           call == ToolCall(p.tool_name, p.json_input, output, r.ok, duration_ms)
       IN  /\ r \in HandlerOutcomes(p.exec, p.json_input)
           /\ IF now - start_time[c] > limits[c].timeout_ms
              THEN /\ EvalFails(c, "ErrorTerminated")
                   /\ UNCHANGED <<tool_calls, invocations>>
              ELSE /\ tool_calls' = [tool_calls EXCEPT ![SessionOf(c)] = push_to_vec(@, call)]
                   /\ invocations' = [invocations EXCEPT ![c] = Append(@,
                         [tool_name |-> p.tool_name, admitted |-> TRUE, output |-> output])]
                   /\ pc' = [pc EXCEPT ![c] = "Evaluating"]
                   /\ UNCHANGED returned
    /\ handler_results' = [handler_results EXCEPT ![c] = Append(@, r)]
    /\ pending' = [pending EXCEPT ![c] = None]
    /\ UNCHANGED <<executors, eval_result, now, script, limits, start_time,
                   engine_fns, call_count, num_operations, handler_runs>>

\* Mutant of handler_return: only a call whose handler returned Ok is recorded.
handler_return_ok_only(c, r) ==
    /\ UNCHANGED aside
    /\ pc[c] = "InTool"
    /\ LET p == pending[c][1]
           output == IF r.ok THEN r.text ELSE ToolErrorText(r.text)
           duration_ms == now - p.call_start
           call == ToolCall(p.tool_name, p.json_input, output, r.ok, duration_ms)
       IN  /\ r \in HandlerOutcomes(p.exec, p.json_input)
           /\ tool_calls' = [tool_calls EXCEPT ![SessionOf(c)] =
                               IF r.ok THEN push_to_vec(@, call) ELSE @]
           /\ invocations' = [invocations EXCEPT ![c] = Append(@,
                   [tool_name |-> p.tool_name, admitted |-> TRUE, output |-> output])]
    /\ handler_results' = [handler_results EXCEPT ![c] = Append(@, r)]
    /\ pending' = [pending EXCEPT ![c] = None]
    /\ pc' = [pc EXCEPT ![c] = "Evaluating"]
    /\ UNCHANGED <<executors, eval_result, now, script, limits, start_time,
                   engine_fns, call_count, num_operations, handler_runs, returned>>

\* The handler returns r: the closure records the call and hands the output
\* to the script.
handler_return(c, r) ==
    /\ UNCHANGED aside
    /\ pc[c] = "InTool"
    /\ LET p == pending[c][1]
           output == IF r.ok THEN r.text ELSE ToolErrorText(r.text)
           duration_ms == now - p.call_start
           call == ToolCall(p.tool_name, p.json_input, output, r.ok, duration_ms)
       IN  /\ r \in HandlerOutcomes(p.exec, p.json_input)
           /\ tool_calls' = [tool_calls EXCEPT ![SessionOf(c)] = push_to_vec(@, call)]
           /\ invocations' = [invocations EXCEPT ![c] = Append(@,
                   [tool_name |-> p.tool_name, admitted |-> TRUE, output |-> output])]
    /\ handler_results' = [handler_results EXCEPT ![c] = Append(@, r)]
    /\ pending' = [pending EXCEPT ![c] = None]
    /\ pc' = [pc EXCEPT ![c] = "Evaluating"]
    /\ UNCHANGED <<executors, eval_result, now, script, limits, start_time,
                   engine_fns, call_count, num_operations, handler_runs, returned>>

\* Engine errors of a script other than the two aborts.
RuntimeErrors == {"Variable not found: undefined_variable"}

runtime_error(c, e) ==
    /\ UNCHANGED aside
    /\ pc[c] = "Evaluating"
    /\ EvalFails(c, e)
    /\ UNCHANGED <<executors, eval_result, now, script, limits, start_time,
                   engine_fns, call_count, tool_calls, num_operations, pending,
                   invocations, handler_runs, handler_results>>

\* The engine's error for a call of a function it does not know.
FunctionNotFound(name) == "Function not found: " \o name

\* The script calls name(..), and no function of that name is registered in
\* the call's engine: the engine counts the call as an operation, fails to
\* resolve the name and ends the evaluation; no closure is reached.
call_unregistered(c, name) ==
    /\ pc[c] = "Evaluating"
    /\ name \notin DOMAIN engine_fns[c]
    /\ num_operations[c] < MaxOps
    /\ num_operations' = [num_operations EXCEPT ![c] = @ + 1]
    /\ IF track_operation(c) # "ok"
       THEN /\ EvalFails(c, track_operation(c))
            /\ UNCHANGED unresolved
       ELSE /\ EvalFails(c, FunctionNotFound(name))
            /\ unresolved' = [unresolved EXCEPT ![c] = Append(@, name)]
    /\ UNCHANGED <<executors, eval_result, now, script, limits, start_time,
                   engine_fns, call_count, tool_calls, pending, invocations,
                   handler_runs, handler_results>>
    /\ UNCHANGED <<accounting_vars, mcp_vars, bridge_vars, builder_vars,
                   registrations, spin, js_executors, lock_vars>>

\* Mutant of ScriptOutput: the debug text whatever the kind of the value.
ScriptOutput_debug_always(result) == DebugText(result)

\* The final value as text: "Convert result to string".
ScriptOutput(result) ==
    IF result.kind = "string" THEN result.val
    ELSE IF result.kind = "unit" THEN ""
    ELSE DebugText(result)

\* Values a script may end with: one of outs, or what its last tool call
\* gave it.
FinalValues(c, outs) ==
    outs \cup
    (IF invocations[c] = << >> THEN {}
     ELSE {DynString(invocations[c][Len(invocations[c])].output)})

\* Evaluation produced the value result: execute returns Ok.
eval_finish(c, result) ==
    /\ UNCHANGED aside
    /\ pc[c] = "Evaluating"
    /\ pc' = [pc EXCEPT ![c] = "Completed"]
    /\ returned' = [returned EXCEPT ![c] = ReturnOk(OrchestratorResult_success(
                        ScriptOutput(result), lock_vec(tool_calls[SessionOf(c)]),
                        now - start_time[c]))]
    /\ eval_result' = [eval_result EXCEPT ![c] = Some(result)]
    /\ UNCHANGED <<executors, now, script, limits, start_time,
                   engine_fns, call_count, tool_calls, num_operations, pending,
                   invocations, handler_runs, handler_results>>

\* handler results the model offers to handler_return; HandlerOutcomes decides
\* which of them the running handler can give.
HandlerResults ==
    {Ok("Hello, Claude!"), Ok("Hello, stranger!"), Err("Intentional failure")}
        \cup UNION {ShellOutcomes(command) : command \in ShellCommands}

\* Final values of the scripts of the tests: nothing, a number.
ScriptValues == {DynUnit, DynInt(3)}

\* One step of the host or of one of the execute calls cs: the host registers
\* handlers hs under names ns and passes sources srcs with limits lims to
\* execute, the scripts call the registered names with inputs ins and end
\* with the values outs.
Step(cs, ns, hs, srcs, lims, ins, outs) ==
    \/ Tick
    \/ \E name \in ns, h \in hs :
           register_executor(name, h) /\ UNCHANGED registrations
    \/ \E c \in cs, src \in srcs, lim \in lims : execute(c, src, lim)
    \/ \E c \in cs : compile(c)
    \/ \E c \in cs : eval_op(c)
    \/ \E c \in cs, name \in ns, input \in ins : invoke_tool(c, name, input)
    \/ \E c \in cs, r \in HandlerResults : handler_return(c, r)
    \/ \E c \in cs, e \in RuntimeErrors : runtime_error(c, e)
    \/ \E c \in cs : \E result \in FinalValues(c, outs) : eval_finish(c, result)

\* One execute call at a time on the orchestrator.
Next == Step({1}, ToolNames, Handlers, Scripts, LimitsOffered, ToolInputs, ScriptValues)

Spec == Init /\ [][Next]_vars

\* Two execute calls that may overlap (threads sharing &ToolOrchestrator).
ConcurrentLimits == {ExecutionLimits(0, 1, 1), ExecutionLimits(2, 0, 0)}

NextConcurrent ==
    Step(Calls, {"greet"}, Handlers, {ValidScript}, ConcurrentLimits,
         {DynString("Claude")}, {DynUnit})

SpecConcurrent == Init /\ [][NextConcurrent]_vars

\* ------------------------------------------------------ name resolution
\* Names the scripts of the resolution runs call: the two tools and one that
\* is never registered.
CalledNames == ToolNames \cup {"nope"}

ResolveLimits == {ExecutionLimits(0, 1, 1), ExecutionLimits(2, 2, 0)}

\* One execute call of a script that may call names nobody registered.
NextResolve ==
    \/ Step({1}, ToolNames, Handlers, {ValidScript}, ResolveLimits,
            {DynString("Claude")}, {DynUnit})
    \/ \E name \in CalledNames : call_unregistered(1, name)

SpecResolve == Init /\ [][NextResolve]_vars

\* --------------------------------------------------------- termination
\* An operation of a script that is still running when the model has stopped
\* counting (num_operations is at MaxOps): with no operation cap set, the engine
\* counts on and polls the hook, as after every operation.
eval_spin(c) ==
    /\ pc[c] = "Evaluating"
    /\ num_operations[c] = MaxOps
    /\ limits[c].max_operations = 0
    /\ IF on_progress(c)
       THEN /\ EvalFails(c, "ErrorTerminated")
            /\ UNCHANGED spin
       ELSE /\ spin' = [spin EXCEPT ![c] = ~@]
            /\ UNCHANGED <<pc, returned>>
    /\ UNCHANGED <<executors, eval_result, now, script, limits, start_time,
                   engine_fns, call_count, tool_calls, num_operations, pending,
                   invocations, handler_runs, handler_results>>
    /\ UNCHANGED <<accounting_vars, mcp_vars, bridge_vars, builder_vars,
                   registrations, unresolved, js_executors, lock_vars>>

\* The limits of the termination runs: no operation cap or a cap of 2, and a
\* timeout the model's clock can run past.
LiveLimits == {ExecutionLimits(0, 1, 0), ExecutionLimits(2, 1, 0)}

\* execute, called while the clock of the model can still pass the timeout.
execute_in_time(c, src, lim) ==
    /\ now + lim.timeout_ms < MaxNow
    /\ execute(c, src, lim)

\* A step of the interpreter in call c: it is never idle while the call is
\* compiling or evaluating.
EngineStep(c) ==
    \/ compile(c)
    \/ eval_op(c)
    \/ eval_spin(c)
    \/ \E name \in ToolNames, input \in {DynString("Claude")} : invoke_tool(c, name, input)
    \/ \E e \in RuntimeErrors : runtime_error(c, e)
    \/ \E result \in FinalValues(c, {DynUnit}) : eval_finish(c, result)

\* The handler call c is in returns.
HandlerReturns(c) == \E r \in HandlerResults : handler_return(c, r)

NextLive ==
    \/ Tick
    \/ \E name \in ToolNames, h \in Handlers :
           register_executor(name, h) /\ UNCHANGED registrations
    \/ \E lim \in LiveLimits : execute_in_time(1, ValidScript, lim)
    \/ EngineStep(1)
    \/ HandlerReturns(1)

\* Time passes, the interpreter runs on, and every handler returns.
SpecLive ==
    /\ Init /\ [][NextLive]_vars
    /\ WF_vars(Tick)
    /\ WF_vars(EngineStep(1))
    /\ WF_vars(HandlerReturns(1))

\* -------------------------------------------------------- WASM binding
\* serde_json::to_string of a tool input; the scripts of these runs pass
\* scalars.
ToJsonText(json) ==
    CASE json.t = "String" -> "\"" \o json.v \o "\""
      [] json.t = "Number" -> ToString(json.v.n)
      [] json.t = "Bool" -> IF json.v THEN "true" ELSE "false"
      [] OTHER -> "null"

\* The JavaScript callbacks of the tests: echo_fn returns "Echo: " + input,
\* error_fn throws an Error object; and one that returns a number, one that
\* throws a string.
JsCallbacks == {"echo_fn", "error_fn", "number_fn", "throw_text_fn"}

\* callback.call1(NULL, js_input): Ok(value) or Err(value), with
\* value.as_string() as text.
JsReturn(text) == [ok |-> TRUE, text |-> text]
JsThrow(text) == [ok |-> FALSE, text |-> text]

JsOutcomes(callback, json_str) ==
    CASE callback = "echo_fn" -> {JsReturn(Some("Echo: " \o json_str))}
      [] callback = "number_fn" -> {JsReturn(None)}
      [] callback = "throw_text_fn" -> {JsThrow(Some("boom"))}
      [] OTHER -> {JsThrow(None)}

JsResults ==
    UNION {JsOutcomes(callback, ToJsonText(dynamic_to_json(DynString("test")))) :
              callback \in JsCallbacks}

\* The (output, success) the closure makes of what the callback did.
JsCallOutput(r) ==
    IF r.ok
    THEN IF r.text # None THEN [output |-> r.text[1], success |-> TRUE]
         ELSE [output |-> "Tool returned non-string result", success |-> FALSE]
    ELSE IF r.text # None THEN [output |-> "Tool error: " \o r.text[1], success |-> FALSE]
         ELSE [output |-> "Tool execution failed", success |-> FALSE]

\* The frame of the WASM actions: what no step of WasmOrchestrator touches.
wasm_aside == <<accounting_vars, mcp_vars, bridge_vars, builder_vars, registrations,
                unresolved, spin, lock_vars, executors>>

\* WasmOrchestrator::register_tool (&mut self): js_executors.insert.
WasmOrchestrator_register_tool(name, callback) ==
    /\ \A c \in Calls : ~InFlight(c)
    /\ js_executors' = [n \in DOMAIN js_executors \cup {name} |->
                           IF n = name THEN callback ELSE js_executors[n]]
    /\ UNCHANGED <<wasm_aside, now, frame, call_count, tool_calls>>

\* WasmOrchestrator::execute up to the compile: the timers, the counter and
\* the log, the engine with its limits and hook, one closure per JS tool.
WasmOrchestrator_execute(c, src, lim) ==
    /\ pc[c] = "Idle"
    /\ pc' = [pc EXCEPT ![c] = "Compiling"]
    /\ script' = [script EXCEPT ![c] = src]
    /\ limits' = [limits EXCEPT ![c] = lim]
    /\ start_time' = [start_time EXCEPT ![c] = now]
    /\ call_count' = [call_count EXCEPT ![c] = 0]
    /\ tool_calls' = [tool_calls EXCEPT ![c] = << >>]
    /\ engine_fns' = [engine_fns EXCEPT ![c] = js_executors]
    /\ UNCHANGED <<wasm_aside, js_executors, eval_result, now, num_operations, pending,
                   invocations, handler_runs, handler_results, returned>>

\* "Compile the script": a failure is a result, not an error value.
WasmOrchestrator_compile(c) ==
    /\ pc[c] = "Compiling"
    /\ IF Compiles(script[c])
       THEN /\ pc' = [pc EXCEPT ![c] = "Evaluating"]
            /\ UNCHANGED returned
       ELSE /\ pc' = [pc EXCEPT ![c] = "Failed"]
            /\ returned' = [returned EXCEPT ![c] = ReturnOk(OrchestratorResult_error(
                                "Compilation error: " \o "syntax error",
                                tool_calls[c], now - start_time[c]))]
    /\ UNCHANGED <<wasm_aside, js_executors, eval_result, now, script, limits,
                   start_time, engine_fns, call_count, tool_calls, num_operations,
                   pending, invocations, handler_runs, handler_results>>

\* The error_msg of the Err arm of "match eval_result".
WasmErrorMsg(e, lim) ==
    IF e = "ErrorTooManyOperations"
    THEN "Script exceeded maximum operations (" \o ToString(lim.max_operations) \o ")"
    ELSE IF e = "ErrorTerminated"
    THEN "Script execution timed out after " \o ToString(lim.timeout_ms) \o "ms"
    ELSE "Execution error: " \o e

\* Mutant of WasmEvalFails: the failed result is made without the records.
WasmEvalFails_without_calls(c, e) ==
    /\ pc' = [pc EXCEPT ![c] = "Failed"]
    /\ returned' = [returned EXCEPT ![c] = ReturnOk(OrchestratorResult_error(
                        WasmErrorMsg(e, limits[c]), << >>, now - start_time[c]))]

\* Evaluation ends with the engine error e: execute returns the result
\* OrchestratorResult::error(error_msg, calls, execution_time_ms).
WasmEvalFails(c, e) ==
    /\ pc' = [pc EXCEPT ![c] = "Failed"]
    /\ returned' = [returned EXCEPT ![c] = ReturnOk(OrchestratorResult_error(
                        WasmErrorMsg(e, limits[c]), tool_calls[c], now - start_time[c]))]

\* One operation of the script that calls no tool.
WasmOrchestrator_eval_op(c) ==
    /\ pc[c] = "Evaluating"
    /\ num_operations[c] < MaxOps
    /\ num_operations' = [num_operations EXCEPT ![c] = @ + 1]
    /\ IF track_operation(c) = "ok"
       THEN UNCHANGED <<pc, returned>>
       ELSE WasmEvalFails(c, track_operation(c))
    /\ UNCHANGED <<wasm_aside, js_executors, eval_result, now, script, limits,
                   start_time, engine_fns, call_count, tool_calls, pending,
                   invocations, handler_runs, handler_results>>

\* The script calls name(input): the closure up to callback.call1.
WasmOrchestrator_call_tool(c, name, input) ==
    /\ pc[c] = "Evaluating"
    /\ name \in DOMAIN engine_fns[c]
    /\ num_operations[c] < MaxOps
    /\ Len(invocations[c]) < MaxInvocations
    /\ num_operations' = [num_operations EXCEPT ![c] = @ + 1]
    /\ IF track_operation(c) # "ok"
       THEN /\ WasmEvalFails(c, track_operation(c))
            /\ UNCHANGED <<call_count, pending, invocations, handler_runs>>
       ELSE LET max_calls == limits[c].max_tool_calls
                r == WasmOrchestrator_check_call_limit(call_count[c], max_calls)
                json_input == dynamic_to_json(input)
            IN  /\ call_count' = [call_count EXCEPT ![c] = r.count]
                /\ IF ~r.ok
                   THEN /\ invocations' = [invocations EXCEPT ![c] = Append(@,
                               [tool_name |-> name, admitted |-> FALSE,
                                output |-> MaxToolCallsSentinel(max_calls)])]
                        /\ UNCHANGED <<pc, pending, handler_runs, returned>>
                   ELSE /\ pending' = [pending EXCEPT ![c] = Some(
                               [tool_name |-> name, exec |-> engine_fns[c][name],
                                json_input |-> json_input, call_start |-> now])]
                        /\ handler_runs' = [handler_runs EXCEPT ![c] = Append(@,
                               [tool_name |-> name, exec |-> engine_fns[c][name],
                                arg |-> input, input |-> json_input])]
                        /\ pc' = [pc EXCEPT ![c] = "InTool"]
                        /\ UNCHANGED <<invocations, returned>>
    /\ UNCHANGED <<wasm_aside, js_executors, eval_result, now, script, limits,
                   start_time, engine_fns, tool_calls, handler_results>>

\* The callback returns or throws: the closure records the call and hands
\* the output to the script.
WasmOrchestrator_callback_return(c, r) ==
    /\ pc[c] = "InTool"
    /\ LET p == pending[c][1]
           out == JsCallOutput(r)
           call == ToolCall(p.tool_name, p.json_input, out.output, out.success,
                            now - p.call_start)
       IN  /\ r \in JsOutcomes(p.exec, ToJsonText(p.json_input))
           /\ tool_calls' = [tool_calls EXCEPT ![c] = WasmOrchestrator_record_call(@, call)]
           /\ invocations' = [invocations EXCEPT ![c] = Append(@,
                   [tool_name |-> p.tool_name, admitted |-> TRUE, output |-> out.output])]
    /\ handler_results' = [handler_results EXCEPT ![c] = Append(@, r)]
    /\ pending' = [pending EXCEPT ![c] = None]
    /\ pc' = [pc EXCEPT ![c] = "Evaluating"]
    /\ UNCHANGED <<wasm_aside, js_executors, eval_result, now, script, limits,
                   start_time, engine_fns, call_count, num_operations, handler_runs,
                   returned>>

\* An engine error of the script other than the two aborts.
WasmOrchestrator_runtime_error(c, e) ==
    /\ pc[c] = "Evaluating"
    /\ WasmEvalFails(c, e)
    /\ UNCHANGED <<wasm_aside, js_executors, eval_result, now, script, limits,
                   start_time, engine_fns, call_count, tool_calls, num_operations,
                   pending, invocations, handler_runs, handler_results>>

\* Evaluation produced the value result: the Ok arm of "match eval_result".
WasmOrchestrator_eval_finish(c, result) ==
    /\ pc[c] = "Evaluating"
    /\ pc' = [pc EXCEPT ![c] = "Completed"]
    /\ returned' = [returned EXCEPT ![c] = ReturnOk(OrchestratorResult_success(
                        ScriptOutput(result), tool_calls[c], now - start_time[c]))]
    /\ eval_result' = [eval_result EXCEPT ![c] = Some(result)]
    /\ UNCHANGED <<wasm_aside, js_executors, now, script, limits, start_time,
                   engine_fns, call_count, tool_calls, num_operations, pending,
                   invocations, handler_runs, handler_results>>

\* What the hosts of the WASM runs register and run.
WasmToolNames == {"echo", "fail"}

WasmScripts == {"echo(\"test\")", InvalidScript}

WasmLimits == {ExecutionLimits(0, 1, 1), ExecutionLimits(2, 2, 0)}

NextWasm ==
    \/ Tick
    \/ \E name \in WasmToolNames, callback \in JsCallbacks :
           WasmOrchestrator_register_tool(name, callback)
    \/ \E src \in WasmScripts, lim \in WasmLimits : WasmOrchestrator_execute(1, src, lim)
    \/ WasmOrchestrator_compile(1)
    \/ WasmOrchestrator_eval_op(1)
    \/ \E name \in WasmToolNames : WasmOrchestrator_call_tool(1, name, DynString("test"))
    \/ \E r \in JsResults : WasmOrchestrator_callback_return(1, r)
    \/ \E e \in RuntimeErrors : WasmOrchestrator_runtime_error(1, e)
    \/ \E result \in FinalValues(1, {DynUnit}) : WasmOrchestrator_eval_finish(1, result)

SpecWasm == Init /\ [][NextWasm]_vars

\* ------------------------------------------------------- script output
\* Final values of every kind: the scripts "42", "[1, 2, 3]", "true", "1.5",
\* "#{key: \"value\", num: 42}", "\"\"", an empty script, a timestamp.
OutputValues ==
    {DynUnit, DynInt(42), DynBool(TRUE), DynFloat(TRUE, "1.5"), DynString(""),
     DynArray(<<DynInt(1), DynInt(2), DynInt(3)>>),
     DynMap([k \in {"key", "num"} |->
                IF k = "key" THEN DynString("value") ELSE DynInt(42)]),
     DynOther("<timestamp>")}

\* One execute call of a script that calls greet and ends with any value.
NextOutput ==
    Step({1}, {"greet"}, {"greet_fn"}, {ValidScript}, {ExecutionLimits(0, 1, 1)},
         {DynString("Claude")}, OutputValues)

SpecOutput == Init /\ [][NextOutput]_vars

\* -------------------------------------------------------- value bridge
\* Elements an array of the bridge runs holds at most.
MaxLen == 2

\* Scalars, after test_dynamic_to_json_types and test_dynamic_to_json_fallback;
\* the floats a script can compute include NaN and the infinities.
BridgeScalars ==
    {DynString("hello"), DynString(""), DynInt(42), DynInt(0), DynInt(-1),
     DynFloat(TRUE, "3.14"), DynFloat(FALSE, "NaN"), DynFloat(FALSE, "inf"),
     DynBool(TRUE), DynBool(FALSE), DynUnit, DynOther("CustomType")}

\* What the containers of the bridge runs hold at the innermost level.
BridgeLeaves == {DynInt(1), DynOther("CustomType")}

\* Arrays of at most MaxLen elements of vals, and maps from some of MapKeys to vals.
ArraysOf(vals) == {DynArray(elems) : elems \in UNION {[1..n -> vals] : n \in 0..MaxLen}}

MapsOf(vals) ==
    {DynMap(m) : m \in UNION {[keys -> vals] :
                    keys \in SUBSET {MapKeys[i] : i \in 1..Len(MapKeys)}}}

\* The values of the tests with containers.
BridgeTestValues ==
    {DynArray(<<DynInt(1), DynInt(2), DynInt(3)>>),
     DynMap([k \in {"key", "num"} |-> IF k = "key" THEN DynString("value") ELSE DynInt(42)]),
     DynMap([k \in {"key"} |-> DynString("test_key")])}

\* Every value the bridge runs convert: scalars, containers of leaves,
\* containers of those.
BridgeValues ==
    LET nested == BridgeLeaves \cup ArraysOf(BridgeLeaves) \cup MapsOf(BridgeLeaves)
    IN  BridgeScalars \cup BridgeTestValues \cup nested
            \cup ArraysOf(nested) \cup MapsOf(nested)

InitBridge ==
    /\ RestInit
    /\ EngineInit
    /\ AccountingInit
    /\ session_max = 0
    /\ registrations = << >>
    /\ ServiceInit
    /\ bridge_in \in BridgeValues
    /\ bridge_out = None
    /\ BuilderInit

\* A call of dynamic_to_json(&bridge_in).
to_json ==
    /\ bridge_out' = Some(dynamic_to_json(bridge_in))
    /\ UNCHANGED <<engine_vars, accounting_vars, registrations, beside, mcp_vars, bridge_in,
                   builder_vars>>

NextBridge == to_json

SpecBridge == InitBridge /\ [][NextBridge]_vars

\* ------------------------------------------------------ limits builder
\* Overrides a chain of the builder runs applies at most.
MaxOverrides == 3

\* Values given to the builders; 0 is as legal as any (nothing is validated).
OverrideValues == {0, 5000}

Presets == {ExecutionLimits_default, ExecutionLimits_quick, ExecutionLimits_extended}

InitBuilder ==
    /\ RestInit
    /\ EngineInit
    /\ AccountingInit
    /\ session_max = 0
    /\ registrations = << >>
    /\ ServiceInit
    /\ bridge_in = DynUnit
    /\ bridge_out = None
    /\ builder_base \in Presets
    /\ builder = builder_base
    /\ builder_chain = << >>

\* builder = builder.with_<field>(value), written down in the chain.
Override(field, built, value) ==
    /\ Len(builder_chain) < MaxOverrides
    /\ builder' = built
    /\ builder_chain' = Append(builder_chain, [field |-> field, value |-> value])
    /\ UNCHANGED <<engine_vars, accounting_vars, registrations, beside, mcp_vars, bridge_vars,
                   builder_base>>

NextBuilder ==
    \E v \in OverrideValues :
        \/ Override("max_operations", with_max_operations(builder, v), v)
        \/ Override("max_tool_calls", with_max_tool_calls(builder, v), v)
        \/ Override("timeout_ms", with_timeout_ms(builder, v), v)
        \/ Override("max_string_size", with_max_string_size(builder, v), v)
        \/ Override("max_array_size", with_max_array_size(builder, v), v)
        \/ Override("max_map_size", with_max_map_size(builder, v), v)

SpecBuilder == InitBuilder /\ [][NextBuilder]_vars

\* ------------------------------------------------------------ registry
\* registered_tools(): the keys of the executors map.
registered_tools == DOMAIN executors

\* register_executor calls the host makes in the registry runs.
MaxRegistrations == 3

\* The limits of the registry runs: nothing cuts the script short.
RegistryLimits == ExecutionLimits(0, 2, 1)

\* The host registers handlers, then runs a script that calls what is
\* registered; every registration is written down.
NextRegistry ==
    \/ \E name \in ToolNames, h \in Handlers :
           /\ Len(registrations) < MaxRegistrations
           /\ register_executor(name, h)
           /\ registrations' = Append(registrations, [name |-> name, handler |-> h])
    \/ execute(1, ValidScript, RegistryLimits)
    \/ compile(1)
    \/ \E name \in ToolNames, input \in ToolInputs : invoke_tool(1, name, input)
    \/ \E r \in HandlerResults : handler_return(1, r)
    \/ \E result \in FinalValues(1, {DynUnit}) : eval_finish(1, result)

SpecRegistry == Init /\ [][NextRegistry]_vars

\* --------------------------------------------------------- MCP service
\* CallToolResult::success(vec![Content::text(text)]) of the tool op on name.
CallToolResult_success(op, name, text) ==
    [op |-> op, name |-> name, is_error |-> FALSE, text |-> text]

\* RegisteredShellTool
RegisteredShellTool(name, description, command) ==
    [name |-> name, description |-> description, command |-> command]

\* Mutant of register_tool: the tool is also bound in the engines of the
\* executions under way.
register_tool_live(name, description, command) ==
    /\ shell_tools' = [n \in DOMAIN shell_tools \cup {name} |->
                          IF n = name THEN RegisteredShellTool(name, description, command)
                          ELSE shell_tools[n]]
    /\ mcp_reply' = CallToolResult_success("register_tool", name,
                         "Tool '" \o name \o "' registered successfully")
    /\ engine_fns' = [c \in Calls |->
                         IF InFlight(c)
                         THEN [n \in DOMAIN engine_fns[c] \cup {name} |->
                                  IF n = name THEN command ELSE engine_fns[c][n]]
                         ELSE engine_fns[c]]
    /\ UNCHANGED <<executors, now, pc, script, limits, start_time,
                   call_count, tool_calls, num_operations, pending, invocations,
                   handler_runs, handler_results, eval_result, returned>>
    /\ UNCHANGED <<accounting_vars, registrations, beside, default_limits,
                   script_replies, bridge_vars, builder_vars>>

\* register_tool: the tool is put under its name, replacing what was there.
register_tool(name, description, command) ==
    /\ shell_tools' = [n \in DOMAIN shell_tools \cup {name} |->
                          IF n = name THEN RegisteredShellTool(name, description, command)
                          ELSE shell_tools[n]]
    /\ mcp_reply' = CallToolResult_success("register_tool", name,
                         "Tool '" \o name \o "' registered successfully")
    /\ UNCHANGED <<engine_vars, accounting_vars, registrations, beside, default_limits,
                   script_replies, bridge_vars, builder_vars>>

\* Mutant of HashMap_remove: the entry stays in the map.
HashMap_remove_keeps(map, name) == map

\* HashMap::remove(name): the map without the key.
HashMap_remove(map, name) == [n \in DOMAIN map \ {name} |-> map[n]]

\* unregister_tool: removed = tools.remove(name).is_some() decides the text;
\* the result is a success either way.
unregister_tool(name) ==
    LET removed == name \in DOMAIN shell_tools IN
    /\ shell_tools' = HashMap_remove(shell_tools, name)
    /\ mcp_reply' = CallToolResult_success("unregister_tool", name,
                         IF removed THEN "Tool '" \o name \o "' unregistered"
                         ELSE "Tool '" \o name \o "' not found")
    /\ UNCHANGED <<engine_vars, accounting_vars, registrations, beside, default_limits,
                   script_replies, bridge_vars, builder_vars>>

\* names.join(", ") over the keys, in some order of the map's iteration.
RECURSIVE JoinedNames(_)
JoinedNames(names) ==
    IF names = {} THEN {""}
    ELSE UNION {{n \o (IF rest = "" THEN "" ELSE ", " \o rest) :
                    rest \in JoinedNames(names \ {n})} : n \in names}

\* list_tools
list_tools ==
    /\ \E text \in (IF DOMAIN shell_tools = {} THEN {"No tools registered"}
                     ELSE {"Registered tools: " \o j : j \in JoinedNames(DOMAIN shell_tools)}) :
           mcp_reply' = CallToolResult_success("list_tools", "", text)
    /\ UNCHANGED <<engine_vars, accounting_vars, registrations, beside, default_limits,
                   shell_tools, script_replies, bridge_vars, builder_vars>>

\* ExecuteScriptParams
ExecuteScriptParams(src, max_operations, max_tool_calls, timeout_ms) ==
    [script |-> src, max_operations |-> max_operations,
     max_tool_calls |-> max_tool_calls, timeout_ms |-> timeout_ms]

\* execute_script, "Build limits": the defaults, each overridden by the
\* parameter that is given.
BuildLimits(default, params) ==
    ExecutionLimits(
        IF params.max_operations = None THEN default.max_operations
        ELSE params.max_operations[1],
        IF params.max_tool_calls = None THEN default.max_tool_calls
        ELSE params.max_tool_calls[1],
        IF params.timeout_ms = None THEN default.timeout_ms
        ELSE params.timeout_ms[1])

\* execute_script up to the compile: the limits, then a new orchestrator with
\* one executor per shell tool registered at that moment, then
\* orchestrator.execute(script, limits) as far as execute goes before compiling.
execute_script(c, params) ==
    /\ pc[c] = "Idle"
    /\ pc' = [pc EXCEPT ![c] = "Compiling"]
    /\ script' = [script EXCEPT ![c] = params.script]
    /\ limits' = [limits EXCEPT ![c] = BuildLimits(default_limits, params)]
    /\ start_time' = [start_time EXCEPT ![c] = now]
    /\ call_count' = [call_count EXCEPT ![SessionOf(c)] = new_shared_counter]
    /\ tool_calls' = [tool_calls EXCEPT ![SessionOf(c)] = new_shared_vec]
    /\ engine_fns' = [engine_fns EXCEPT ![c] =
                          [n \in DOMAIN shell_tools |-> shell_tools[n].command]]
    /\ UNCHANGED <<executors, eval_result, now, num_operations, pending,
                   invocations, handler_runs, handler_results, returned>>
    /\ UNCHANGED <<accounting_vars, registrations, beside, mcp_vars, bridge_vars, builder_vars>>

\* Display of an OrchestratorError (the #[error] texts).
ErrorText(e) ==
    CASE e.variant = "CompilationError" -> "Script compilation failed: " \o e.with
      [] e.variant = "ExecutionError" -> "Script execution failed: " \o e.with
      [] e.variant = "MaxOperationsExceeded" ->
             "Script exceeded maximum operations (" \o e.with \o ")"
      [] e.variant = "MaxToolCallsExceeded" ->
             "Script exceeded maximum tool calls (" \o e.with \o ")"
      [] e.variant = "Timeout" -> "Script execution timed out after " \o e.with \o "ms"
      [] e.variant = "ToolNotFound" -> "Tool not found: " \o e.with
      [] e.variant = "ToolError" -> "Tool execution failed: " \o e.with

\* ExecuteScriptResult::from(OrchestratorResult)
ExecuteScriptResult_from(r) ==
    [success |-> r.success, output |-> r.output,
     tool_calls_count |-> Len(r.tool_calls),
     execution_time_ms |-> r.execution_time_ms, error |-> r.error]

\* The ExecuteScriptResult built for Err(e).
ExecuteScriptResult_error(e) ==
    [success |-> FALSE, output |-> "", tool_calls_count |-> 0,
     execution_time_ms |-> 0, error |-> Some(ErrorText(e))]

\* execute_script from the return of orchestrator.execute: the reply.
execute_script_reply(c) ==
    /\ pc[c] \in {"Completed", "Failed"}
    /\ script_replies[c] = None
    /\ script_replies' = [script_replies EXCEPT ![c] = Some(
           IF returned[c].kind = "Ok" THEN ExecuteScriptResult_from(returned[c].val)
           ELSE ExecuteScriptResult_error(returned[c].val))]
    /\ UNCHANGED <<engine_vars, accounting_vars, registrations, beside, default_limits,
                   shell_tools, mcp_reply, bridge_vars, builder_vars>>

\* What the clients of the MCP runs send.
McpToolNames == {"greet", "fail_tool"}

McpParams ==
    {ExecuteScriptParams(ValidScript, Some(2), None, None),
     ExecuteScriptParams(InvalidScript, None, Some(1), Some(1))}

McpInputs == {DynString("Claude")}

\* One step of the MCP service: a tool call of a client, or a step of the
\* script of one of the execute_script calls cs.
StepMcp(cs) ==
    \/ \E name \in McpToolNames, command \in ShellCommands :
           register_tool(name, "says hello", command)
    \/ \E name \in McpToolNames : unregister_tool(name)
    \/ list_tools
    \/ \E c \in cs, params \in McpParams : execute_script(c, params)
    \/ \E c \in cs : compile(c)
    \/ \E c \in cs, name \in McpToolNames, input \in McpInputs :
           invoke_tool(c, name, input)
    \/ \E c \in cs, r \in HandlerResults : handler_return(c, r)
    \/ \E c \in cs : \E result \in FinalValues(c, {DynUnit}) : eval_finish(c, result)
    \/ \E c \in cs : execute_script_reply(c)

\* One execute_script call, among any register, unregister and list calls.
NextMcp == StepMcp({1})

SpecMcp == Init /\ [][NextMcp]_vars

\* ------------------------------------------------- MCP service, locks
\* The handlers of ToolOrchestratorService step by step: each
\* "lock().await" is a step of its own, taken when the Mutex is free; what a
\* handler does between two awaits is one step.
McpTools == {"execute_script", "register_tool", "unregister_tool", "list_tools",
             "set_default_limits"}

\* The first await of each handler.
FirstAwait(tool) ==
    IF tool \in {"execute_script", "set_default_limits"} THEN "lock_default_limits"
    ELSE "lock_shell_tools"

\* What the clients of the lock runs send, and what the host sets.
LockParams == ExecuteScriptParams(ValidScript, Some(0), Some(1), Some(0))

LockToolNames == {"greet"}

LockLimits == ExecutionLimits(0, 2, 0)

\* The frame of the handlers' steps: what the MCP service never touches.
lock_aside == <<accounting_vars, bridge_vars, builder_vars, registrations,
                unresolved, spin, js_executors, executors, now, num_operations,
                pending, invocations, handler_runs, handler_results, eval_result,
                returned>>

\* A request arrives on connection r and its handler starts: it stands at its
\* first await.
tool_call(r, tool, name) ==
    /\ requests[r] = NoRequest
    /\ tool = "execute_script" => pc[r] = "Idle"
    /\ requests' = [requests EXCEPT ![r] =
                       [tool |-> tool, at |-> FirstAwait(tool), name |-> name]]
    /\ UNCHANGED <<lock_aside, mcp_vars, default_limits_lock, shell_tools_lock,
                   pc, script, limits, start_time, engine_fns, call_count, tool_calls>>

\* self.default_limits.lock().await returns the guard.
lock_default_limits(r) ==
    /\ requests[r].at = "lock_default_limits"
    /\ default_limits_lock = None
    /\ default_limits_lock' = Some(r)
    /\ requests' = [requests EXCEPT ![r].at =
                       IF requests[r].tool = "execute_script" THEN "build_limits"
                       ELSE "store"]
    /\ UNCHANGED <<lock_aside, mcp_vars, shell_tools_lock,
                   pc, script, limits, start_time, engine_fns, call_count, tool_calls>>

\* self.shell_tools.lock().await returns the guard.
lock_shell_tools(r) ==
    /\ requests[r].at = "lock_shell_tools"
    /\ shell_tools_lock = None
    /\ shell_tools_lock' = Some(r)
    /\ requests' = [requests EXCEPT ![r].at =
                       CASE requests[r].tool = "execute_script" -> "register_executors"
                         [] requests[r].tool = "register_tool" -> "insert"
                         [] requests[r].tool = "unregister_tool" -> "remove"
                         [] OTHER -> "keys"]
    /\ UNCHANGED <<lock_aside, mcp_vars, default_limits_lock,
                   pc, script, limits, start_time, engine_fns, call_count, tool_calls>>

\* set_default_limits from the guard on: *default = limits, the guard dropped
\* at the return.
set_default_limits_store(r) ==
    /\ requests[r].at = "store"
    /\ default_limits_lock = Some(r)
    /\ default_limits' = LockLimits
    /\ default_limits_lock' = None
    /\ requests' = [requests EXCEPT ![r] = NoRequest]
    /\ UNCHANGED <<lock_aside, shell_tools, mcp_reply, script_replies, shell_tools_lock,
                   pc, script, limits, start_time, engine_fns, call_count, tool_calls>>

\* execute_script, "Build limits": default.clone(), drop(default), the
\* overrides; the handler then awaits the tool map.
execute_script_build_limits(r) ==
    /\ requests[r].at = "build_limits"
    /\ default_limits_lock = Some(r)
    /\ limits' = [limits EXCEPT ![r] = BuildLimits(default_limits, LockParams)]
    /\ default_limits_lock' = None
    /\ requests' = [requests EXCEPT ![r].at = "lock_shell_tools"]
    /\ UNCHANGED <<lock_aside, mcp_vars, shell_tools_lock,
                   pc, script, start_time, engine_fns, call_count, tool_calls>>

\* Mutant of execute_script_register_executors: the guard of the tool map
\* is kept while the script runs.
execute_script_register_executors_keeps_guard(r) ==
    /\ requests[r].at = "register_executors"
    /\ shell_tools_lock = Some(r)
    /\ engine_fns' = [engine_fns EXCEPT ![r] =
                          [n \in DOMAIN shell_tools |-> shell_tools[n].command]]
    /\ shell_tools_lock' = shell_tools_lock
    /\ pc' = [pc EXCEPT ![r] = "Compiling"]
    /\ script' = [script EXCEPT ![r] = LockParams.script]
    /\ start_time' = [start_time EXCEPT ![r] = now]
    /\ call_count' = [call_count EXCEPT ![SessionOf(r)] = new_shared_counter]
    /\ tool_calls' = [tool_calls EXCEPT ![SessionOf(r)] = new_shared_vec]
    /\ requests' = [requests EXCEPT ![r].at = "execute"]
    /\ UNCHANGED <<lock_aside, mcp_vars, default_limits_lock, limits>>

\* execute_script, "Create orchestrator and register shell tools": one
\* executor per tool of the map, drop(tools), and orchestrator.execute as far
\* as it goes before compiling.
execute_script_register_executors(r) ==
    /\ requests[r].at = "register_executors"
    /\ shell_tools_lock = Some(r)
    /\ engine_fns' = [engine_fns EXCEPT ![r] =
                          [n \in DOMAIN shell_tools |-> shell_tools[n].command]]
    /\ shell_tools_lock' = None
    /\ pc' = [pc EXCEPT ![r] = "Compiling"]
    /\ script' = [script EXCEPT ![r] = LockParams.script]
    /\ start_time' = [start_time EXCEPT ![r] = now]
    /\ call_count' = [call_count EXCEPT ![SessionOf(r)] = new_shared_counter]
    /\ tool_calls' = [tool_calls EXCEPT ![SessionOf(r)] = new_shared_vec]
    /\ requests' = [requests EXCEPT ![r].at = "execute"]
    /\ UNCHANGED <<lock_aside, mcp_vars, default_limits_lock, limits>>

\* execute_script from the return of orchestrator.execute: the reply.
execute_script_respond(r) ==
    /\ requests[r].at = "execute"
    /\ pc[r] \in {"Completed", "Failed"}
    /\ script_replies' = [script_replies EXCEPT ![r] = Some(
           IF returned[r].kind = "Ok" THEN ExecuteScriptResult_from(returned[r].val)
           ELSE ExecuteScriptResult_error(returned[r].val))]
    /\ requests' = [requests EXCEPT ![r] = NoRequest]
    /\ UNCHANGED <<lock_aside, default_limits, shell_tools, mcp_reply,
                   default_limits_lock, shell_tools_lock,
                   pc, script, limits, start_time, engine_fns, call_count, tool_calls>>

\* register_tool from the guard on: tools.insert, the reply, the guard dropped
\* at the return.
register_tool_insert(r, description, command) ==
    LET name == requests[r].name IN
    /\ requests[r].at = "insert"
    /\ shell_tools_lock = Some(r)
    /\ shell_tools' = [n \in DOMAIN shell_tools \cup {name} |->
                          IF n = name THEN RegisteredShellTool(name, description, command)
                          ELSE shell_tools[n]]
    /\ mcp_reply' = CallToolResult_success("register_tool", name,
                         "Tool '" \o name \o "' registered successfully")
    /\ shell_tools_lock' = None
    /\ requests' = [requests EXCEPT ![r] = NoRequest]
    /\ UNCHANGED <<lock_aside, default_limits, script_replies, default_limits_lock,
                   pc, script, limits, start_time, engine_fns, call_count, tool_calls>>

\* unregister_tool from the guard on.
unregister_tool_remove(r) ==
    LET name == requests[r].name
        removed == name \in DOMAIN shell_tools
    IN  /\ requests[r].at = "remove"
        /\ shell_tools_lock = Some(r)
        /\ shell_tools' = HashMap_remove(shell_tools, name)
        /\ mcp_reply' = CallToolResult_success("unregister_tool", name,
                             IF removed THEN "Tool '" \o name \o "' unregistered"
                             ELSE "Tool '" \o name \o "' not found")
        /\ shell_tools_lock' = None
        /\ requests' = [requests EXCEPT ![r] = NoRequest]
        /\ UNCHANGED <<lock_aside, default_limits, script_replies, default_limits_lock,
                       pc, script, limits, start_time, engine_fns, call_count,
                       tool_calls>>

\* list_tools from the guard on.
list_tools_keys(r) ==
    /\ requests[r].at = "keys"
    /\ shell_tools_lock = Some(r)
    /\ \E text \in (IF DOMAIN shell_tools = {} THEN {"No tools registered"}
                     ELSE {"Registered tools: " \o j : j \in JoinedNames(DOMAIN shell_tools)}) :
           mcp_reply' = CallToolResult_success("list_tools", "", text)
    /\ shell_tools_lock' = None
    /\ requests' = [requests EXCEPT ![r] = NoRequest]
    /\ UNCHANGED <<lock_aside, default_limits, shell_tools, script_replies,
                   default_limits_lock,
                   pc, script, limits, start_time, engine_fns, call_count, tool_calls>>

\* A step of the handler of connection r that waits for nobody: what it does
\* with a guard in hand, and its reply once the script has ended.
HandlerStep(r) ==
    \/ set_default_limits_store(r)
    \/ execute_script_build_limits(r)
    \/ execute_script_register_executors(r)
    \/ execute_script_respond(r)
    \/ register_tool_insert(r, "says hello", "echo hello")
    \/ unregister_tool_remove(r)
    \/ list_tools_keys(r)

\* A step of the script of connection r, inside orchestrator.execute; the
\* script of these runs calls its tool once.
ScriptStep(r) ==
    \/ compile(r)
    \/ \E name \in LockToolNames, input \in McpInputs :
           handler_runs[r] = << >> /\ invoke_tool(r, name, input)
    \/ \E res \in ShellOutcomes("echo hello") : handler_return(r, res)
    \/ \E result \in FinalValues(r, {DynUnit}) : eval_finish(r, result)

NextLocks ==
    \E r \in Calls :
        \/ \E tool \in McpTools, name \in LockToolNames : tool_call(r, tool, name)
        \/ lock_default_limits(r)
        \/ lock_shell_tools(r)
        \/ HandlerStep(r)
        \/ ScriptStep(r)

\* The runtime runs every handler that can go on, and the Mutex of tokio
\* hands the lock to its waiters in turn; nothing makes a script end.
SpecLocks ==
    /\ Init
    /\ [][NextLocks]_vars
    /\ \A r \in Calls :
           /\ WF_vars(HandlerStep(r))
           /\ SF_vars(lock_default_limits(r))
           /\ SF_vars(lock_shell_tools(r))

\* ------------------------------------------------ accounting strategies
\* Records the strategies are asked to append.
MaxAppends == 3

SessionRecords ==
    {ToolCall("greet", JsonString("Claude"), "Hello, Claude!", TRUE, 0),
     ToolCall("fail_tool", JsonInt(1), "Tool error: Intentional failure", FALSE, 0)}

\* Result<(), ()> of a try-increment, as its text.
ResultText(r) == IF r.ok THEN "Ok" ELSE "Err"

\* The same try-increment asked of each strategy.
try_increment ==
    LET n == increment_counter(native.counter, session_max)
        w == increment_counter_wasm(wasm.counter, session_max)
        i == WasmOrchestrator_check_call_limit(inline.counter, session_max)
    IN  /\ native' = [native EXCEPT !.counter = n.count]
        /\ wasm' = [wasm EXCEPT !.counter = w.count]
        /\ inline' = [inline EXCEPT !.counter = i.count]
        /\ session_last' = [op |-> "try_increment", native |-> ResultText(n),
                            wasm |-> ResultText(w), inline |-> ResultText(i)]
        /\ UNCHANGED <<engine_vars, session_max, registrations, beside, mcp_vars, bridge_vars,
                    builder_vars>>

\* The same append asked of each strategy.
append(record) ==
    /\ Len(native.vec) < MaxAppends
    /\ native' = [native EXCEPT !.vec = push_to_vec(@, record)]
    /\ wasm' = [wasm EXCEPT !.vec = push_to_vec_wasm(@, record)]
    /\ inline' = [inline EXCEPT !.vec = WasmOrchestrator_record_call(@, record)]
    /\ session_last' = [op |-> "append", native |-> "()", wasm |-> "()", inline |-> "()"]
    /\ UNCHANGED <<engine_vars, session_max, registrations, beside, mcp_vars, bridge_vars,
                    builder_vars>>

InitAccounting ==
    /\ RestInit
    /\ EngineInit
    /\ AccountingInit
    /\ session_max \in MaxToolCallsValues
    /\ registrations = << >>
    /\ ServiceInit
    /\ bridge_in = DynUnit
    /\ bridge_out = None
    /\ BuilderInit

NextAccounting ==
    \/ try_increment
    \/ \E record \in SessionRecords : append(record)

SpecAccounting == InitAccounting /\ [][NextAccounting]_vars

\* ===================================================================
\* Properties
\* ===================================================================
IsPrefix(a, b) == Len(a) <= Len(b) /\ \A i \in 1..Len(a) : a[i] = b[i]

Last(q) == q[Len(q)]

\* The invocations of call c that the closure admitted and returned from.
AdmittedCount(c) == Cardinality({i \in 1..Len(invocations[c]) : invocations[c][i].admitted})

Rejected(c) == {i \in 1..Len(invocations[c]) : ~invocations[c][i].admitted}

\* The phase of the per-call state machine; a handler runs during evaluation.
Phase(c) == IF pc[c] = "InTool" THEN "Evaluating" ELSE pc[c]

\* ------------------------------------------------------------------ C1
\* C1: in every reachable state of an execute call, whatever the script, the
\* handler outcomes and max_tool_calls >= 0, the audit log holds at most
\* limits.max_tool_calls records (and so do the calls execute returns).
C1_AuditLogWithinCap ==
    \A c \in Calls :
        pc[c] # "Idle" =>
            /\ Len(tool_calls[c]) <= limits[c].max_tool_calls
            /\ returned[c].kind = "Ok" =>
                   Len(returned[c].val.tool_calls) <= limits[c].max_tool_calls

\* The log is full and a further invocation was turned away.
C1_Witness ==
    /\ limits[1].max_tool_calls = 2
    /\ Len(tool_calls[1]) = 2
    /\ Rejected(1) # {}

\* ------------------------------------------------------------------ C2
\* C2: with max_tool_calls = N, an invocation made once N invocations have been
\* admitted gets the string "ERROR: Maximum tool calls (N) exceeded", its
\* handler is not invoked and no record is appended; evaluation goes on, and a
\* script that then completes has success = true and exactly N records.
C2_RejectedInvocations ==
    \A c \in Calls :
        LET N == limits[c].max_tool_calls IN
        /\ \A i \in 1..Len(invocations[c]) :
               Cardinality({j \in 1..(i - 1) : invocations[c][j].admitted}) >= N =>
                   /\ ~invocations[c][i].admitted
                   /\ invocations[c][i].output =
                          "ERROR: Maximum tool calls (" \o ToString(N) \o ") exceeded"
        /\ Rejected(c) # {} =>
               /\ Len(handler_runs[c]) = N
               /\ Len(tool_calls[c]) = N
               /\ pc[c] = "Completed" =>
                      /\ returned[c].kind = "Ok"
                      /\ returned[c].val.success
                      /\ Len(returned[c].val.tool_calls) = N

\* A rejected invocation is a step of its own: nothing but the script's view
\* changes, and the script is still being evaluated.
C2_RejectionStep ==
    [][\A c \in Calls :
          (pc[c] = "Evaluating" /\ Len(invocations'[c]) > Len(invocations[c])) =>
              /\ pc'[c] = "Evaluating"
              /\ ~Last(invocations'[c]).admitted
              /\ handler_runs'[c] = handler_runs[c]
              /\ tool_calls'[c] = tool_calls[c]
              /\ returned'[c] = NoReturn]_vars

C2_SoftCallLimit == []C2_RejectedInvocations /\ C2_RejectionStep

\* The scenario of test_max_tool_calls_limit, with N = 2: the third call's
\* sentinel is the script's output.
C2_Witness ==
    /\ pc[1] = "Completed"
    /\ limits[1].max_tool_calls = 2
    /\ Len(invocations[1]) = 3
    /\ returned[1].val.output = "ERROR: Maximum tool calls (2) exceeded"
    /\ Len(returned[1].val.tool_calls) = 2

\* ------------------------------------------------------------------ C3
\* C3: a handler returning Err(e) does not fail execute: the script gets
\* "Tool error: " followed by e, the log gets a record with success = false and
\* that string as output, evaluation goes on, and a script that completes has
\* success = true.
C3_HandlerReturnsErr ==
    [][\A c \in Calls :
          (Len(handler_results'[c]) > Len(handler_results[c])
              /\ ~Last(handler_results'[c]).ok) =>
              LET e == Last(handler_results'[c]).text IN
              /\ pc'[c] = "Evaluating"
              /\ returned'[c] = NoReturn
              /\ Last(invocations'[c]).output = "Tool error: " \o e
              /\ Len(tool_calls'[c]) = Len(tool_calls[c]) + 1
              /\ ~Last(tool_calls'[c]).success
              /\ Last(tool_calls'[c]).output = "Tool error: " \o e]_vars

C3_CompletedDespiteErr ==
    \A c \in Calls :
        (pc[c] = "Completed" /\ \E i \in 1..Len(handler_results[c]) : ~handler_results[c][i].ok)
            => returned[c].kind = "Ok" /\ returned[c].val.success

C3_HandlerErrorInBand == []C3_CompletedDespiteErr /\ C3_HandlerReturnsErr

\* test_tool_error_handling: one failing call, its error text is the output.
C3_Witness ==
    /\ pc[1] = "Completed"
    /\ Len(handler_results[1]) = 1
    /\ ~handler_results[1][1].ok
    /\ returned[1].val.success
    /\ returned[1].val.output = "Tool error: Intentional failure"
    /\ ~returned[1].val.tool_calls[1].success

\* ------------------------------------------------------------------ C4
\* C4: the audit log of a call is append-only and in invocation order: a step
\* leaves the log as it is or appends one record, the i-th record is the record
\* of the i-th admitted invocation (the handler runs of a call do not overlap,
\* so each returns before the next starts), and the calls execute returns are
\* that log.
C4_AppendOnly ==
    [][\A c \in Calls :
          \/ tool_calls'[c] = tool_calls[c]
          \/ /\ Len(tool_calls'[c]) = Len(tool_calls[c]) + 1
             /\ IsPrefix(tool_calls[c], tool_calls'[c])]_vars

C4_InvocationOrder ==
    \A c \in Calls :
        /\ Len(tool_calls[c]) = Len(handler_results[c])
        /\ Len(tool_calls[c]) <= Len(handler_runs[c])
        /\ \A i \in 1..Len(tool_calls[c]) :
               /\ tool_calls[c][i].tool_name = handler_runs[c][i].tool_name
               /\ tool_calls[c][i].input = handler_runs[c][i].input
               /\ tool_calls[c][i].success = handler_results[c][i].ok
        /\ returned[c].kind = "Ok" => returned[c].val.tool_calls = tool_calls[c]

C4_LogAppendOnlyOrdered == []C4_InvocationOrder /\ C4_AppendOnly

\* Two records of different tools with different outcomes, in call order.
C4_Witness ==
    /\ pc[1] = "Completed"
    /\ Len(returned[1].val.tool_calls) = 2
    /\ returned[1].val.tool_calls[1].tool_name = "fail_tool"
    /\ ~returned[1].val.tool_calls[1].success
    /\ returned[1].val.tool_calls[2].tool_name = "greet"
    /\ returned[1].val.tool_calls[2].success

\* ------------------------------------------------------------------ C5
\* C5: when the source does not compile, execute returns CompilationError at
\* once: evaluation never starts (no operation is counted, no closure runs), no
\* handler is invoked and no record is created.
C5_CompileFailure ==
    \A c \in Calls :
        (pc[c] # "Idle" /\ script[c] = InvalidScript) =>
            /\ pc[c] \in {"Compiling", "Failed"}
            /\ pc[c] = "Failed" =>
                   /\ returned[c].kind = "Err"
                   /\ returned[c].val.variant = "CompilationError"
            /\ num_operations[c] = 0
            /\ invocations[c] = << >>
            /\ handler_runs[c] = << >>
            /\ tool_calls[c] = << >>

\* A tool is registered, and the call still fails at the compile.
C5_Witness ==
    /\ pc[1] = "Failed"
    /\ script[1] = InvalidScript
    /\ DOMAIN engine_fns[1] # {}
    /\ returned[1] = ReturnErr(CompilationError("syntax error"))

C7_HookAborts ==
    [][\A c \in Calls :
          (/\ num_operations'[c] = num_operations[c] + 1
           /\ ~(limits[c].max_operations > 0 /\ num_operations'[c] > limits[c].max_operations)
           /\ now - start_time[c] > limits[c].timeout_ms) =>
              /\ pc'[c] = "Failed"
              /\ returned'[c] = ReturnErr(Timeout(limits[c].timeout_ms))]_vars

C7_TimeoutOnlyWhenElapsed ==
    \A c \in Calls :
        (returned[c].kind = "Err" /\ returned[c].val.variant = "Timeout") =>
            /\ returned[c].val.with = ToString(limits[c].timeout_ms)
            /\ now - start_time[c] > limits[c].timeout_ms

C7_TimeoutIndependent == []C7_TimeoutOnlyWhenElapsed /\ C7_HookAborts

\* Timed out at the first operation, with an operation budget of 2.
C7_Witness ==
    /\ pc[1] = "Failed"
    /\ returned[1] = ReturnErr(Timeout(0))
    /\ limits[1].max_operations = 2
    /\ num_operations[1] = 1

\* ------------------------------------------------------------------ C8
\* C8: a call goes Idle -> Compiling -> Evaluating -> Completed or Failed; a
\* compile failure goes from Compiling to Failed and never evaluates; Completed
\* is entered only from evaluation with a result; Completed and Failed are
\* terminal (nothing of the call changes any more, no tool is invoked); and a
\* call has an outcome exactly when it is terminal: a result when Completed,
\* one typed error when Failed.
PhaseMoves ==
    {<<"Idle", "Compiling">>, <<"Compiling", "Evaluating">>, <<"Compiling", "Failed">>,
     <<"Evaluating", "Completed">>, <<"Evaluating", "Failed">>}

C8_Moves ==
    [][\A c \in Calls :
          /\ Phase(c)' # Phase(c) => <<Phase(c), Phase(c)'>> \in PhaseMoves
          /\ (pc[c] = "Compiling" /\ pc'[c] = "Failed") =>
                 /\ ~Compiles(script[c])
                 /\ returned'[c].val.variant = "CompilationError"
          /\ pc[c] = "InTool" => pc'[c] \in {"InTool", "Evaluating"}
          /\ pc[c] \in {"Completed", "Failed"} =>
                 /\ pc'[c] = pc[c]
                 /\ returned'[c] = returned[c]
                 /\ invocations'[c] = invocations[c]
                 /\ handler_runs'[c] = handler_runs[c]
                 /\ tool_calls'[c] = tool_calls[c]
                 /\ call_count'[c] = call_count[c]
                 /\ num_operations'[c] = num_operations[c]]_vars

C8_Outcome ==
    \A c \in Calls :
        /\ pc[c] \in {"Idle", "Compiling", "Evaluating", "InTool", "Completed", "Failed"}
        /\ pc[c] = "Completed" <=> returned[c].kind = "Ok"
        /\ pc[c] = "Failed" <=> returned[c].kind = "Err"
        /\ pc[c] \notin {"Completed", "Failed"} <=> returned[c].kind = "none"
        /\ pc[c] \in {"Evaluating", "InTool", "Completed"} => Compiles(script[c])
        /\ pc[c] = "Completed" => returned[c].val.success /\ returned[c].val.error = None

C8_CallStateMachine == []C8_Outcome /\ C8_Moves

\* A call that failed during evaluation after a recorded tool call.
C8_Witness ==
    /\ pc[1] = "Failed"
    /\ returned[1].kind = "Err"
    /\ returned[1].val.variant = "ExecutionError"
    /\ Len(tool_calls[1]) = 1

\* ------------------------------------------------------------------ C9
\* C9: reaching the tool-call cap never aborts: a rejected invocation leaves
\* the call evaluating with no outcome, execute never returns
\* MaxToolCallsExceeded, and of the limits only the operation cap and the
\* timeout end a running script: a step from evaluation to Failed is a breach
\* of the operation cap, an elapsed timeout, or the script's own runtime error.
C9_RejectionKeepsRunning ==
    [][\A c \in Calls :
          /\ (Len(invocations'[c]) > Len(invocations[c])
                 /\ ~Last(invocations'[c]).admitted) =>
                 /\ pc'[c] = "Evaluating"
                 /\ returned'[c].kind = "none"
          /\ (Phase(c) = "Evaluating" /\ pc'[c] = "Failed") =>
                 \/ /\ returned'[c].val.variant = "MaxOperationsExceeded"
                    /\ num_operations'[c] > limits[c].max_operations
                 \/ /\ returned'[c].val.variant = "Timeout"
                    /\ now - start_time[c] > limits[c].timeout_ms
                 \/ /\ returned'[c].val.variant = "ExecutionError"
                    /\ returned'[c].val.with \in RuntimeErrors]_vars

C9_NeverMaxToolCallsExceeded ==
    \A c \in Calls :
        returned[c].kind = "Err" => returned[c].val.variant # "MaxToolCallsExceeded"

C9_CapIsNoAbort == []C9_NeverMaxToolCallsExceeded /\ C9_RejectionKeepsRunning

\* With a cap of 0 three invocations were rejected and the script completed.
C9_Witness ==
    /\ pc[1] = "Completed"
    /\ limits[1].max_tool_calls = 0
    /\ Cardinality(Rejected(1)) = 3
    /\ returned[1].val.success

\* ----------------------------------------------------------------- C10
\* C10: execute calls are isolated, also when they overlap: a call starts with
\* its counter at 0 and its log empty, a step of one call (a tool invocation
\* among them) changes neither the counter nor the log of another, and counter,
\* log and returned calls of a call account for its own invocations only.
C10_NoInterference ==
    [][\A c \in Calls :
          /\ (pc[c] = "Idle" /\ pc'[c] # "Idle") =>
                 call_count'[c] = 0 /\ tool_calls'[c] = << >>
          /\ pc'[c] = pc[c] =>
                 call_count'[c] = call_count[c] /\ tool_calls'[c] = tool_calls[c]]_vars

C10_OwnRecords ==
    \A c \in Calls :
        /\ call_count[c] = Len(handler_runs[c])
        /\ Len(tool_calls[c]) = Len(handler_results[c])
        /\ \A i \in 1..Len(tool_calls[c]) :
               /\ tool_calls[c][i].tool_name = handler_runs[c][i].tool_name
               /\ tool_calls[c][i].input = handler_runs[c][i].input
               /\ tool_calls[c][i].success = handler_results[c][i].ok
        /\ returned[c].kind = "Ok" =>
               /\ returned[c].val.tool_calls = tool_calls[c]
               /\ Len(returned[c].val.tool_calls) = AdmittedCount(c)

C10_CallsIsolated == []C10_OwnRecords /\ C10_NoInterference

\* Both calls are inside a handler at the same moment.
C10_Witness ==
    /\ pc[1] = "InTool"
    /\ pc[2] = "InTool"
    /\ call_count[1] = 1
    /\ call_count[2] = 1

\* ----------------------------------------------------------------- C11
\* C11: the lock-guarded (native) and the single-owner (wasm) accounting
\* strategies are observationally equivalent: driven with the same sequence of
\* try-increment and append operations and the same cap they answer alike and
\* hold the same counter and the same log after every step; a try-increment
\* is exceeded exactly when the counter is at the cap, and then changes neither
\* the counter nor the log of any strategy.
C11_SameObservations ==
    /\ wasm = native
    /\ inline = native
    /\ session_last.wasm = session_last.native
    /\ session_last.inline = session_last.native
    /\ lock_vec(native.vec) = wasm.vec

C11_TryIncrement ==
    [][session_last'.op = "try_increment" =>
          IF native.counter >= session_max
          THEN /\ session_last'.native = "Err" /\ session_last'.wasm = "Err"
               /\ session_last'.inline = "Err"
               /\ native' = native /\ wasm' = wasm /\ inline' = inline
          ELSE /\ session_last'.native = "Ok" /\ session_last'.wasm = "Ok"
               /\ session_last'.inline = "Ok"
               /\ native'.counter = native.counter + 1
               /\ wasm'.counter = wasm.counter + 1
               /\ inline'.counter = inline.counter + 1
               /\ native'.vec = native.vec /\ wasm'.vec = wasm.vec
               /\ inline'.vec = inline.vec]_vars

C11_StrategiesEquivalent == []C11_SameObservations /\ C11_TryIncrement

\* Both strategies full at a cap of 2 with two records, the last try-increment
\* exceeded in each.
C11_Witness ==
    /\ session_max = 2
    /\ native.counter = 2
    /\ Len(wasm.vec) = 2
    /\ session_last.op = "try_increment"
    /\ session_last.native = "Err"
    /\ session_last.wasm = "Err"

\* ----------------------------------------------------------------- C12
\* C12: registration is an idempotent upsert: after any sequence of
\* register_executor calls the registered names are exactly the distinct names
\* registered, each bound to the handler of the last registration under that
\* name; registering a binding that is already there changes nothing; and a
\* script that calls a name runs the handler registered last under it.
RegisteredNamesOf(log) == {log[i].name : i \in 1..Len(log)}

LastRegistered(log, name) ==
    log[CHOOSE i \in 1..Len(log) :
            /\ log[i].name = name
            /\ \A j \in (i + 1)..Len(log) : log[j].name # name].handler

C12_Upsert ==
    /\ registered_tools = RegisteredNamesOf(registrations)
    /\ Cardinality(registered_tools) <= Len(registrations)
    /\ \A name \in registered_tools :
           executors[name] = LastRegistered(registrations, name)
    /\ \A c \in Calls :
           pc[c] \in {"Evaluating", "InTool"} =>
               \A i \in 1..Len(handler_runs[c]) :
                   handler_runs[c][i].exec =
                       LastRegistered(registrations, handler_runs[c][i].tool_name)

C12_Idempotent ==
    [][(/\ Len(registrations') = Len(registrations) + 1
        /\ Last(registrations').name \in registered_tools
        /\ executors[Last(registrations').name] = Last(registrations').handler)
          => executors' = executors]_vars

C12_RegistrationUpsert == []C12_Upsert /\ C12_Idempotent

\* greet was registered twice; the script's call ran the second handler.
C12_Witness ==
    /\ Len(registrations) = 2
    /\ registrations[1] = [name |-> "greet", handler |-> "greet_fn"]
    /\ registrations[2] = [name |-> "greet", handler |-> "fail_fn"]
    /\ registered_tools = {"greet"}
    /\ Len(handler_results[1]) = 1
    /\ handler_runs[1][1].exec = "fail_fn"
    /\ ~handler_results[1][1].ok

\* ----------------------------------------------------------------- C13
\* A step of unregister_tool: its reply is the last one, and the step is not
\* a mere repetition of the state.
UnregisterStep ==
    /\ mcp_reply'.op = "unregister_tool"
    /\ mcp_reply' # mcp_reply \/ shell_tools' # shell_tools

C13_Removes ==
    [][/\ UnregisterStep =>
            LET name == mcp_reply'.name IN
            /\ mcp_reply'.is_error = FALSE
            /\ IF name \in DOMAIN shell_tools
               THEN /\ mcp_reply'.text = "Tool '" \o name \o "' unregistered"
                    /\ DOMAIN shell_tools' = DOMAIN shell_tools \ {name}
                    /\ \A n \in DOMAIN shell_tools' : shell_tools'[n] = shell_tools[n]
               ELSE /\ mcp_reply'.text = "Tool '" \o name \o "' not found"
                    /\ shell_tools' = shell_tools
       /\ \A c \in Calls :
              (pc[c] = "Idle" /\ pc'[c] # "Idle") =>
                  DOMAIN engine_fns'[c] = DOMAIN shell_tools]_vars

C13_OnlyGivenNames ==
    \A c \in Calls :
        \A i \in 1..Len(handler_runs[c]) :
            handler_runs[c][i].tool_name \in DOMAIN engine_fns[c]

C14_OutputByKind ==
    \A c \in Calls :
        pc[c] = "Completed" =>
            LET value == eval_result[c][1]
                result == returned[c].val
            IN  /\ returned[c].kind = "Ok"
                /\ result.success
                /\ result.error = None
                /\ value.kind = "string" => result.output = value.val
                /\ value.kind = "unit" => result.output = ""
                /\ value.kind \notin {"string", "unit"} => result.output = DebugText(value)
                /\ value = DynInt(42) => result.output = "42"
                /\ value = DynBool(TRUE) => result.output = "true"
                /\ value.kind = "float" => result.output = "1.5"
                /\ value.kind = "array" => result.output = "[1, 2, 3]"
                /\ value.kind = "map" => result.output = "#{\"key\": \"value\", \"num\": 42}"

\* test_non_string_result after a tool call: the script ended with 42.
C14_Witness ==
    /\ pc[1] = "Completed"
    /\ eval_result[1] = Some(DynInt(42))
    /\ returned[1].val.output = "42"
    /\ returned[1].val.success
    /\ returned[1].val.error = None
    /\ Len(returned[1].val.tool_calls) = 1

RECURSIVE Corresponds(_, _)
Corresponds(value, json) ==
    CASE value.kind = "array" ->
             /\ json.t = "Array"
             /\ Len(json.v) = Len(value.val)
             /\ \A i \in 1..Len(value.val) : Corresponds(value.val[i], json.v[i])
      [] value.kind = "map" ->
             /\ json.t = "Object"
             /\ DOMAIN json.v = DOMAIN value.val
             /\ \A k \in DOMAIN value.val : Corresponds(value.val[k], json.v[k])
      [] value.kind = "string" -> json = [t |-> "String", v |-> value.val]
      [] value.kind = "int" -> json.t = "Number" /\ json.v.n = value.val
      [] value.kind = "float" -> json.t = IF value.val.finite THEN "Number" ELSE "Null"
      [] value.kind = "bool" -> json = [t |-> "Bool", v |-> value.val]
      [] value.kind = "unit" -> json.t = "Null"
      [] OTHER -> json.t = "String"

\* C16: containers are converted recursively: an array becomes a JSON array
\* of the same length whose i-th element is the conversion of the array's i-th
\* element, a map becomes a JSON object with exactly the map's keys, each
\* holding the conversion of the map's value, and so at every nesting depth.
C16_Containers ==
    bridge_out # None =>
        LET value == bridge_in
            json == bridge_out[1]
        IN  /\ value.kind = "array" =>
                   /\ json.t = "Array"
                   /\ Len(json.v) = Len(value.val)
                   /\ \A i \in 1..Len(value.val) : json.v[i] = dynamic_to_json(value.val[i])
            /\ value.kind = "map" =>
                   /\ json.t = "Object"
                   /\ DOMAIN json.v = DOMAIN value.val
                   /\ \A k \in DOMAIN value.val : json.v[k] = dynamic_to_json(value.val[k])
            /\ Corresponds(value, json)

\* An array holding an array and a map, converted.
C16_Witness ==
    /\ bridge_in = DynArray(<<DynArray(<<DynInt(1), DynOther("CustomType")>>),
                              DynMap([k \in {"key"} |-> DynInt(1)])>>)
    /\ bridge_out = Some(JsonArray(<<JsonArray(<<JsonInt(1), JsonString("CustomType")>>),
                                      JsonObject([k \in {"key"} |-> JsonInt(1)])>>))

\* ----------------------------------------------------------------- C17
\* A well-formed serde_json::Value.
RECURSIVE IsJson(_)
IsJson(json) ==
    /\ json.t \in {"String", "Number", "Bool", "Array", "Object", "Null"}
    /\ json.t = "Array" => \A i \in 1..Len(json.v) : IsJson(json.v[i])
    /\ json.t = "Object" => \A k \in DOMAIN json.v : IsJson(json.v[k])

\* C17: the bridge is total and deterministic: whatever the value, a value of
\* another kind than string, integer, float, boolean, array, map and unit
\* included, the call returns a JSON value; the other kinds give a JSON string
\* that holds a non-empty debug text; and a further conversion of the same
\* value returns the same JSON.
C17_ReturnsJson ==
    bridge_out # None =>
        /\ Len(bridge_out) = 1
        /\ IsJson(bridge_out[1])
        /\ bridge_in.kind \notin {"string", "int", "float", "bool", "array", "map", "unit"} =>
               /\ bridge_out[1].t = "String"
               /\ bridge_out[1].v # ""
               /\ bridge_out[1].v = bridge_in.val

C17_SameAgain ==
    [][/\ bridge_out' # None
       /\ bridge_out # None => bridge_out' = bridge_out]_vars

LimitFields ==
    {"max_operations", "max_tool_calls", "timeout_ms",
     "max_string_size", "max_array_size", "max_map_size"}

\* The overrides of the chain that set field, by their places in the chain.
OverridesOf(field) == {i \in 1..Len(builder_chain) : builder_chain[i].field = field}

\* C18: each with_* builder sets its own field to the value given and leaves
\* the other five fields as they were; so the value built by a chain has, in
\* every field, the value of the last override of that field, or the preset's
\* when the chain has none, whatever the order of the overrides of different
\* fields.
C18_OwnFieldOnly ==
    [][Len(builder_chain') = Len(builder_chain) + 1 =>
          LET last == builder_chain'[Len(builder_chain')] IN
          /\ builder'[last.field] = last.value
          /\ \A f \in LimitFields \ {last.field} : builder'[f] = builder[f]]_vars

C18_LastOverrideWins ==
    /\ DOMAIN builder = LimitFields
    /\ \A f \in LimitFields :
           builder[f] = IF OverridesOf(f) = {} THEN builder_base[f]
                        ELSE builder_chain[CHOOSE i \in OverridesOf(f) :
                                 \A j \in OverridesOf(f) : j <= i].value

C18_BuildersFrame == []C18_LastOverrideWins /\ C18_OwnFieldOnly

\* quick(), then max_array_size set twice around an override of max_map_size.
C18_Witness ==
    /\ builder_base = ExecutionLimits_quick
    /\ builder_chain = <<[field |-> "max_array_size", value |-> 0],
                         [field |-> "max_map_size", value |-> 5000],
                         [field |-> "max_array_size", value |-> 5000]>>
    /\ builder.max_array_size = 5000
    /\ builder.max_map_size = 5000
    /\ builder.max_operations = QUICK_MAX_OPERATIONS
    /\ builder.max_string_size = DEFAULT_MAX_STRING_SIZE

\* ----------------------------------------------------------------- C19
Min(a, b) == IF a <= b THEN a ELSE b

\* C19: every admitted invocation appends exactly one record, and does so
\* when its handler has returned, Ok or Err alike: nothing is appended at the
\* admission, one record is appended in the step the handler returns, and no
\* other step appends.  So the log of a script that completes is as long as
\* the smaller of the number of invocations it made and max_tool_calls.
C19_RecordAtReturn ==
    [][\A c \in Calls :
          /\ Len(handler_runs'[c]) > Len(handler_runs[c]) =>
                 /\ tool_calls'[c] = tool_calls[c]
                 /\ pc'[c] = "InTool"
          /\ Len(handler_results'[c]) > Len(handler_results[c]) =>
                 /\ pc[c] = "InTool"
                 /\ Len(tool_calls'[c]) = Len(tool_calls[c]) + 1
                 /\ Last(tool_calls'[c]).success = Last(handler_results'[c]).ok
          /\ (pc[c] # "Idle" /\ tool_calls'[c] # tool_calls[c]) =>
                 Len(handler_results'[c]) = Len(handler_results[c]) + 1]_vars

C19_LogLength ==
    \A c \in Calls :
        /\ Len(tool_calls[c]) = Len(handler_results[c])
        /\ Len(handler_runs[c]) = Len(tool_calls[c]) + (IF pc[c] = "InTool" THEN 1 ELSE 0)
        /\ pc[c] = "Completed" =>
               /\ Len(tool_calls[c]) = Min(Len(invocations[c]), limits[c].max_tool_calls)
               /\ Len(returned[c].val.tool_calls) =
                      Min(Len(invocations[c]), limits[c].max_tool_calls)

C19_OneRecordPerAdmitted == []C19_LogLength /\ C19_RecordAtReturn

\* Three invocations under a cap of 2, the first handler returning Err: two
\* records.
C19_Witness ==
    /\ pc[1] = "Completed"
    /\ limits[1].max_tool_calls = 2
    /\ Len(invocations[1]) = 3
    /\ ~handler_results[1][1].ok
    /\ handler_results[1][2].ok
    /\ Len(returned[1].val.tool_calls) = 2

\* ----------------------------------------------------------------- C20
\* The place in invocations[c] of the i-th admitted invocation of call c.
AdmittedAt(c, i) ==
    CHOOSE k \in 1..Len(invocations[c]) :
        /\ invocations[c][k].admitted
        /\ Cardinality({j \in 1..k : invocations[c][j].admitted}) = i

\* C20: for every admitted invocation, what the script got back is the output
\* of its record, which is the handler's Ok text or "Tool error: " and its Err
\* text; the record's tool_name is the name the script called, a name
\* registered when execute was called; and the record's input is the JSON the
\* handler was given, the conversion of the script's argument.
C20_RecordMatchesCall ==
    \A c \in Calls :
        /\ AdmittedCount(c) = Len(tool_calls[c])
        /\ \A i \in 1..Len(tool_calls[c]) :
               LET record == tool_calls[c][i]
                   run == handler_runs[c][i]
                   result == handler_results[c][i]
                   seen == invocations[c][AdmittedAt(c, i)]
               IN  /\ seen.output = record.output
                   /\ record.output = IF result.ok THEN result.text
                                      ELSE "Tool error: " \o result.text
                   /\ record.success = result.ok
                   /\ record.tool_name = seen.tool_name
                   /\ record.tool_name = run.tool_name
                   /\ record.tool_name \in DOMAIN engine_fns[c]
                   /\ run.exec = engine_fns[c][record.tool_name]
                   /\ record.input = run.input
                   /\ record.input = dynamic_to_json(run.arg)
                   /\ result \in HandlerOutcomes(run.exec, record.input)

\* test_tool_execution: greet("Claude") gave "Hello, Claude!", one record.
C20_Witness ==
    /\ pc[1] = "Completed"
    /\ returned[1].val.success
    /\ returned[1].val.output = "Hello, Claude!"
    /\ Len(returned[1].val.tool_calls) = 1
    /\ returned[1].val.tool_calls[1].tool_name = "greet"
    /\ returned[1].val.tool_calls[1].input = JsonString("Claude")
    /\ returned[1].val.tool_calls[1].output = "Hello, Claude!"
    /\ handler_runs[1][1].arg = DynString("Claude")

\* ----------------------------------------------------------------- C21
\* C21: a call of a name with no registered handler is rejected by the engine
\* before any closure of the orchestrator is reached: in that step no handler
\* is invoked, nothing is counted and no record is appended, and the execute
\* call fails with ExecutionError carrying the engine's message; the records
\* of a call name registered tools only; and execute never returns
\* ToolNotFound or ToolError, whatever the script.
C21_RejectedByEngine ==
    [][\A c \in Calls :
          unresolved'[c] # unresolved[c] =>
              /\ Last(unresolved'[c]) \notin DOMAIN engine_fns[c]
              /\ handler_runs'[c] = handler_runs[c]
              /\ invocations'[c] = invocations[c]
              /\ call_count'[c] = call_count[c]
              /\ tool_calls'[c] = tool_calls[c]
              /\ pc'[c] = "Failed"
              /\ returned'[c].kind = "Err"
              /\ returned'[c].val.variant = "ExecutionError"]_vars

C21_FailsWithExecutionError ==
    \A c \in Calls :
        /\ unresolved[c] # << >> =>
               /\ pc[c] = "Failed"
               /\ returned[c] =
                      ReturnErr(ExecutionError("Function not found: " \o unresolved[c][1]))
        /\ \A i \in 1..Len(tool_calls[c]) :
               /\ tool_calls[c][i].tool_name \in DOMAIN engine_fns[c]
               /\ \A j \in 1..Len(unresolved[c]) :
                      tool_calls[c][i].tool_name # unresolved[c][j]
        /\ returned[c].kind = "Err" =>
               returned[c].val.variant \notin {"ToolNotFound", "ToolError"}

Overdue(c) == now - start_time[c] > limits[c].timeout_ms

\* C22: the time a handler takes counts against timeout_ms, and the handler
\* is not interrupted: while a handler runs, no step ends the call, however
\* long ago the timeout elapsed; when it returns, late or not, its call is
\* completed (the script gets the output, the record is appended, with the
\* time the handler took); and the first operation the engine counts after a
\* late return, unless it breaks the operation cap, has the hook abort the
\* evaluation with Timeout(timeout_ms), the records staying as they are.
C22_HandlerRunsToItsEnd ==
    [][\A c \in Calls :
          /\ pc[c] = "InTool" =>
                 /\ pc'[c] \in {"InTool", "Evaluating"}
                 /\ returned'[c] = NoReturn
          /\ (pc[c] = "InTool" /\ pc'[c] = "Evaluating") =>
                 /\ Len(tool_calls'[c]) = Len(tool_calls[c]) + 1
                 /\ Last(tool_calls'[c]).duration_ms = now - pending[c][1].call_start
                 /\ Last(invocations'[c]).admitted
                 /\ Last(invocations'[c]).output = Last(tool_calls'[c]).output
          /\ (/\ pc[c] = "Evaluating"
              /\ tool_calls[c] # << >>
              /\ Overdue(c)
              /\ num_operations'[c] = num_operations[c] + 1
              /\ ~(limits[c].max_operations > 0
                      /\ num_operations'[c] > limits[c].max_operations)) =>
                 /\ pc'[c] = "Failed"
                 /\ returned'[c] = ReturnErr(Timeout(limits[c].timeout_ms))
                 /\ tool_calls'[c] = tool_calls[c]]_vars

\* Every record's duration lies within the time its call has been running.
C22_DurationWithinCall ==
    \A c \in Calls :
        \A i \in 1..Len(tool_calls[c]) :
            /\ tool_calls[c][i].duration_ms >= 0
            /\ tool_calls[c][i].duration_ms <= now - start_time[c]

C22_SlowHandler == []C22_DurationWithinCall /\ C22_HandlerRunsToItsEnd

\* With timeout_ms = 0 the clock moved while the handler ran; the handler
\* returned, its record says 1 ms, and the next operation timed the call out.
C22_Witness ==
    /\ limits[1].timeout_ms = 0
    /\ Len(tool_calls[1]) = 1
    /\ tool_calls[1][1].duration_ms = 1
    /\ handler_runs[1] # << >>
    /\ Len(invocations[1]) = 1
    /\ pc[1] = "Failed"
    /\ returned[1] = ReturnErr(Timeout(0))

\* ----------------------------------------------------------------- C23
\* C23: provided every handler it invokes returns, an execute call that was
\* made ends, Completed or Failed: a script that runs on and on is cut off by
\* the operation cap or, with no cap, by the timeout.
C23_Ends ==
    \A c \in {1} : (pc[c] # "Idle") ~> (pc[c] \in {"Completed", "Failed"})

\* And nothing preempts a handler: a step in which the handler of a call does
\* not return, a tick of the clock past the timeout included, leaves the call
\* in its handler with no outcome.
C23_NoPreemption ==
    [][\A c \in Calls :
          (pc[c] = "InTool" /\ handler_results'[c] = handler_results[c]) =>
              /\ pc'[c] = "InTool"
              /\ returned'[c] = NoReturn
              /\ pending'[c] = pending[c]]_vars

C23_Termination == C23_Ends /\ C23_NoPreemption

\* A script with no operation cap that ran past the model's count and was
\* cut off by the timeout.
C23_Witness ==
    /\ limits[1].max_operations = 0
    /\ num_operations[1] = MaxOps
    /\ spin[1]
    /\ pc[1] = "Failed"
    /\ returned[1] = ReturnErr(Timeout(0))

\* ----------------------------------------------------------------- C24
\* The tool map as an orchestrator's executors: each name with its command.
SnapshotOf(tools) == [n \in DOMAIN tools |-> tools[n].command]

\* C24: an execute_script request runs against the tool map as it was when
\* the request read it: the functions of its engine are the tools of that
\* moment, every register_tool and unregister_tool made before included; a
\* register_tool or unregister_tool made while the script runs changes the
\* shared map and nothing of the execution under way, which goes on calling
\* the names and running the commands of its snapshot.
C24_Snapshot ==
    [][\A c \in Calls :
          /\ (pc[c] = "Idle" /\ pc'[c] # "Idle") =>
                 engine_fns'[c] = SnapshotOf(shell_tools)
          /\ pc[c] # "Idle" => engine_fns'[c] = engine_fns[c]
          /\ shell_tools' # shell_tools =>
                 /\ pc'[c] = pc[c]
                 /\ pending'[c] = pending[c]
                 /\ handler_runs'[c] = handler_runs[c]
                 /\ tool_calls'[c] = tool_calls[c]
                 /\ returned'[c] = returned[c]
          /\ Len(handler_runs'[c]) > Len(handler_runs[c]) =>
                 LET run == Last(handler_runs'[c]) IN
                 /\ run.tool_name \in DOMAIN engine_fns[c]
                 /\ run.exec = engine_fns[c][run.tool_name]]_vars

C24_RunsItsSnapshot ==
    \A c \in Calls :
        \A i \in 1..Len(handler_results[c]) :
            /\ handler_runs[c][i].exec = engine_fns[c][handler_runs[c][i].tool_name]
            /\ handler_results[c][i] \in ShellOutcomes(handler_runs[c][i].exec)

C24_InFlightSnapshot == []C24_RunsItsSnapshot /\ C24_Snapshot

\* The script ran "echo hello" under greet although, by the end of the
\* execution, greet was registered anew with another command and fail_tool,
\* which the script also called, was unregistered.
C24_Witness ==
    /\ pc[1] = "Completed"
    /\ DOMAIN engine_fns[1] = {"greet", "fail_tool"}
    /\ engine_fns[1]["greet"] = "echo hello"
    /\ DOMAIN shell_tools = {"greet"}
    /\ shell_tools["greet"].command = "echo bye"
    /\ Len(handler_results[1]) = 2
    /\ handler_runs[1][1].tool_name = "greet"
    /\ handler_results[1][1] = Ok("hello")
    /\ handler_runs[1][2].tool_name = "fail_tool"

\* ----------------------------------------------------------------- C25
\* C25: the response of execute_script is a projection of the execution's
\* result: when execute returned a result, success, output,
\* execution_time_ms and error are copied from it; and, for every execution,
\* tool_calls_count is the number of audit records that execution made.
C25_ReplyIsProjection ==
    \A c \in Calls :
        script_replies[c] # None =>
            LET reply == script_replies[c][1] IN
            /\ returned[c].kind = "Ok" =>
                   /\ reply.success = returned[c].val.success
                   /\ reply.output = returned[c].val.output
                   /\ reply.execution_time_ms = returned[c].val.execution_time_ms
                   /\ reply.error = returned[c].val.error
            /\ reply.tool_calls_count = Len(tool_calls[c])

\* A WASM execute call handed back a result that reports a failure.
WasmFailure(c) == returned[c].kind = "Ok" /\ ~returned[c].val.success

\* C26 (part): a WASM execute call never returns an error value: a call that
\* failed returned a result with success = false, an empty output and an
\* error message, and a call that completed returned a result with
\* success = true.
C26_InBand ==
    \A c \in Calls :
        /\ returned[c].kind # "Err"
        /\ pc[c] = "Failed" =>
              /\ WasmFailure(c)
              /\ returned[c].val.output = ""
              /\ returned[c].val.error # None
        /\ pc[c] = "Completed" => returned[c].kind = "Ok" /\ returned[c].val.success

\* C26 (part): the message of a failed WASM call names its cause: a script
\* that does not compile gives "Compilation error: ...", the operation cap
\* gives the max-operations message with the cap, the deadline gives the
\* timeout message with the timeout.
C26_Message ==
    \A c \in Calls :
        pc[c] = "Failed" =>
            LET msg == returned[c].val.error[1]
                lim == limits[c]
            IN  /\ ~Compiles(script[c]) => msg = "Compilation error: syntax error"
                /\ Compiles(script[c]) =>
                      \/ /\ msg = "Script exceeded maximum operations ("
                                    \o ToString(lim.max_operations) \o ")"
                         /\ lim.max_operations > 0
                         /\ num_operations[c] > lim.max_operations
                      \/ /\ msg = "Script execution timed out after "
                                    \o ToString(lim.timeout_ms) \o "ms"
                         /\ now - start_time[c] > lim.timeout_ms
                      \/ \E e \in RuntimeErrors : msg = "Execution error: " \o e

\* C26 (part): the tool_calls of a failed WASM call are the records appended
\* before the failure, one per callback that ran, and none when the script
\* did not compile.
C26_RecordsKept ==
    \A c \in Calls :
        pc[c] = "Failed" =>
            /\ returned[c].val.tool_calls = tool_calls[c]
            /\ Len(returned[c].val.tool_calls) = Len(handler_results[c])
            /\ ~Compiles(script[c]) => returned[c].val.tool_calls = << >>

\* C26: WasmOrchestrator.execute reports compile and evaluation failures
\* in-band: a result with success = false, an empty output, the error
\* message of the cause, and the tool-call records appended before the
\* failure (none for a compile failure).
C26_WasmFailsInBand == C26_InBand /\ C26_Message /\ C26_RecordsKept

\* C26 witness: a WASM call failed on the operation cap after one callback
\* had run and been recorded, and its result carries that record.
C26_Witness ==
    /\ pc[1] = "Failed"
    /\ WasmFailure(1)
    /\ returned[1].val.error = Some("Script exceeded maximum operations (2)")
    /\ Len(returned[1].val.tool_calls) = 1
    /\ returned[1].val.tool_calls[1].tool_name = "echo"
    /\ returned[1].val.tool_calls[1].output = "Echo: \"test\""

\* ----------------------------------------------------------------- C27
\* C27 (part): throughout an execution, the number of records in the log is
\* at most the call counter, and the call counter is at most max_tool_calls;
\* with max_tool_calls = 0 every invocation is rejected and the log stays
\* empty.
C27_Ordering ==
    \A c \in Calls :
        pc[c] # "Idle" =>
            /\ Len(tool_calls[c]) <= call_count[SessionOf(c)]
            /\ call_count[SessionOf(c)] <= limits[c].max_tool_calls
            /\ call_count[SessionOf(c)] = Len(handler_runs[c])
            /\ limits[c].max_tool_calls = 0 =>
                   /\ tool_calls[c] = << >>
                   /\ \A i \in 1..Len(invocations[c]) : ~invocations[c][i].admitted

\* C27 (part): the counter starts at 0 when the call starts, never
\* decreases, and goes up by exactly 1 at each admitted invocation, in the
\* step that hands control to the handler and before the handler has
\* returned anything; a rejected invocation leaves counter and log as they
\* were.
C27_CounterSteps ==
    [][\A c \in Calls :
          LET n == call_count[SessionOf(c)]
              n2 == call_count'[SessionOf(c)]
          IN  /\ (pc[c] = "Idle" /\ pc'[c] # "Idle") => n2 = 0
              /\ pc[c] # "Idle" => n2 \in {n, n + 1}
              /\ (pc[c] # "Idle" /\ n2 = n + 1) =>
                    /\ pc[c] = "Evaluating" /\ pc'[c] = "InTool"
                    /\ Len(handler_runs'[c]) = Len(handler_runs[c]) + 1
                    /\ handler_results'[c] = handler_results[c]
                    /\ tool_calls'[c] = tool_calls[c]
                    /\ Len(handler_results'[c]) < n2
              /\ (pc[c] = "Evaluating" /\ pc'[c] = "InTool") => n2 = n + 1
              /\ (Len(invocations'[c]) > Len(invocations[c])
                     /\ ~Last(invocations'[c]).admitted) =>
                    /\ n2 = n
                    /\ tool_calls'[c] = tool_calls[c]]_vars

\* C27: log length <= call counter <= max_tool_calls throughout an
\* execution; the counter starts at 0, goes up by 1 per admitted invocation
\* before the handler runs and never decreases; a rejected invocation
\* changes neither; with max_tool_calls = 0 all are rejected and the log is
\* empty.
C27_CounterInvariant == []C27_Ordering /\ C27_CounterSteps

\* C27 witness: the second invocation was admitted under a cap of 2 and its
\* handler is running: the counter is at the cap, one ahead of the log.
C27_Witness ==
    /\ pc[1] = "InTool"
    /\ limits[1].max_tool_calls = 2
    /\ call_count[SessionOf(1)] = 2
    /\ Len(tool_calls[1]) = 1

\* ----------------------------------------------------------------- C28
\* C28 (part): one counter serves all the tools of an execute call: the
\* handlers started for the several tools add up to the call counter, which
\* never passes max_tool_calls, and an invocation is rejected exactly when
\* the invocations admitted before it, of whatever tool, number the cap.
C28_OneCounter ==
    \A c \in Calls :
        pc[c] # "Idle" =>
            LET N == limits[c].max_tool_calls IN
            /\ RunsOf(c, "greet") + RunsOf(c, "fail_tool") = call_count[SessionOf(c)]
            /\ call_count[SessionOf(c)] <= N
            /\ \A i \in 1..Len(invocations[c]) :
                   ~invocations[c][i].admitted <=>
                       Cardinality({j \in 1..(i - 1) : invocations[c][j].admitted}) = N

\* C28 (part): once the admitted invocations of a call number the cap, an
\* invocation of any tool gets the sentinel, a tool never called before
\* included.
C28_AnyToolRejected ==
    [][\A c \in Calls :
          (/\ pc[c] = "Evaluating"
           /\ call_count[SessionOf(c)] = limits[c].max_tool_calls
           /\ num_operations'[c] > num_operations[c]
           /\ pc'[c] # "Failed"
           /\ \/ Len(invocations'[c]) > Len(invocations[c])
              \/ pc'[c] = "InTool") =>
              /\ pc'[c] = "Evaluating"
              /\ Len(invocations'[c]) = Len(invocations[c]) + 1
              /\ Last(invocations'[c]).tool_name \in DOMAIN engine_fns[c]
              /\ Last(invocations'[c]).output =
                     MaxToolCallsSentinel(limits[c].max_tool_calls)
              /\ handler_runs'[c] = handler_runs[c]]_vars

\* C28: the cap on tool calls is shared by all the tools of one execute
\* call, through the single counter the closures hold: once the admitted
\* invocations number the cap, an invocation of any tool, one never called
\* before included, gets the sentinel.
C28_CapSharedByTools == []C28_OneCounter /\ C28_AnyToolRejected

\* C28 witness: under a cap of 1, greet was admitted and recorded, and then
\* fail_tool, which had never been called, got the sentinel.
C28_Witness ==
    /\ limits[1].max_tool_calls = 1
    /\ Len(tool_calls[1]) = 1
    /\ tool_calls[1][1].tool_name = "greet"
    /\ RunsOf(1, "fail_tool") = 0
    /\ Len(invocations[1]) = 2
    /\ invocations[1][2] = [tool_name |-> "fail_tool", admitted |-> FALSE,
                            output |-> MaxToolCallsSentinel(1)]

\* ----------------------------------------------------------------- C29
\* C29 (part): a native execute call that failed during evaluation returned
\* Err with one of ExecutionError, MaxOperationsExceeded and Timeout, a
\* value made of the variant and its one field: no output, no duration and
\* no tool-call log, whatever the log holds.
C29_OnlyTypedError ==
    \A c \in Calls :
        (pc[c] = "Failed" /\ Compiles(script[c])) =>
            /\ returned[c].kind = "Err"
            /\ returned[c].val.variant \in
                   {"ExecutionError", "MaxOperationsExceeded", "Timeout"}
            /\ DOMAIN returned[c].val = {"variant", "with"}
            /\ returned[c].val \in
                   {MapEvalError(e, limits[c]) :
                       e \in {"ErrorTooManyOperations", "ErrorTerminated"}
                              \cup RuntimeErrors}

\* C29 (part): the step that fails the call leaves the handler calls made so
\* far as they are (started, returned, recorded in the session's log), and
\* nothing after the failure changes them.
C29_NothingUndone ==
    [][\A c \in Calls :
          pc'[c] = "Failed" =>
              /\ handler_runs'[c] = handler_runs[c]
              /\ handler_results'[c] = handler_results[c]
              /\ tool_calls'[c] = tool_calls[c]
              /\ Len(tool_calls'[c]) = Len(handler_results'[c])]_vars

\* C29: when the native execute fails during evaluation the caller receives
\* only the typed error (ExecutionError, MaxOperationsExceeded or Timeout):
\* the handler calls already made are not undone and their audit records
\* are not returned.
C29_ErrorCarriesNoLog == []C29_OnlyTypedError /\ C29_NothingUndone

\* C29 witness: the call failed on its deadline after a handler had run and
\* been recorded; the caller holds Timeout alone.
C29_Witness ==
    /\ pc[1] = "Failed"
    /\ returned[1] = ReturnErr(Timeout(limits[1].timeout_ms))
    /\ Len(handler_results[1]) >= 1
    /\ Len(tool_calls[1]) >= 1

\* ----------------------------------------------------------------- C30
\* C30 (part): no handler holds the lock of the default limits and the lock
\* of the tool map at once; a lock is held exactly by a handler standing
\* between its lock().await and the drop of the guard; and a handler whose
\* script is running (or has run) holds neither.
C30_LockDiscipline ==
    \A r \in Calls :
        /\ ~(default_limits_lock = Some(r) /\ shell_tools_lock = Some(r))
        /\ default_limits_lock = Some(r) <=> requests[r].at \in {"build_limits", "store"}
        /\ shell_tools_lock = Some(r) <=>
               requests[r].at \in {"register_executors", "insert", "remove", "keys"}
        /\ (requests[r].at = "execute" \/ InFlight(r)) =>
               /\ default_limits_lock # Some(r)
               /\ shell_tools_lock # Some(r)
               /\ requests[r].tool = "execute_script"

\* C30 (part): no deadlock: a handler waiting for a lock finds it free, or
\* held by a handler whose next step waits for nobody.
C30_NoDeadlock ==
    \A r \in Calls :
        /\ requests[r].at = "lock_default_limits" =>
               \/ ENABLED lock_default_limits(r)
               \/ \E h \in Calls \ {r} :
                      default_limits_lock = Some(h) /\ ENABLED HandlerStep(h)
        /\ requests[r].at = "lock_shell_tools" =>
               \/ ENABLED lock_shell_tools(r)
               \/ \E h \in Calls \ {r} :
                      shell_tools_lock = Some(h) /\ ENABLED HandlerStep(h)

\* C30 (part): every register_tool, unregister_tool and list_tools request
\* (and set_default_limits call) is served to its end, and every
\* execute_script request gets to run its script, whatever scripts are
\* running and even if they never end.
C30_Served ==
    \A r \in Calls :
        /\ (requests[r].tool \in McpTools \ {"execute_script"}) ~> (requests[r] = NoRequest)
        /\ (requests[r].tool = "execute_script") ~> (requests[r].at = "execute")

====
